---- MODULE Spec2Model ----
(***************************************************************************)
(* psyengine: the fixed-timestep main loop (SdlRuntime::run) and the input *)
(* state machine (InputManager).                                           *)
(*                                                                         *)
(* Time.  time::TimePoint is the Uint64 performance counter; the variable  *)
(* clock is that counter and every time::Now() reads it.  A value of s     *)
(* seconds (double / float in the source) is the integer s * SecondUnits.  *)
(* The counter frequency, the fixed-update frequencies and the frame-time  *)
(* clamps of the model are chosen so that every time the loop computes is  *)
(* a multiple of 2^-28 s below 8 s: such values and their sums,            *)
(* differences, fmod and quotients by a power-of-two step are exact in     *)
(* IEEE doubles, so the integer arithmetic here is the arithmetic of the   *)
(* source on these inputs.  A step such as 1/5 s, which a double does not  *)
(* hold exactly, is outside the model.  A float holds 24 significant bits, *)
(* so a conversion to float rounds (RoundToFloat).                         *)
(***************************************************************************)
EXTENDS Integers, Sequences, FiniteSets, TLC

\* ---------------------------------------------------------------- bounds
MaxClock == 2          \* InputManager alone: the counter is followed up to this tick
MaxRunClock == 6       \* main loop: the counter is followed up to this tick
MaxQueue == 2          \* most events pending in the SDL queue at once
MaxPosted == 2         \* most events the platform queues during one run() call
MaxLoopPosted == 3     \* the same, in the pumping scenario
MaxLagClock == 12      \* main loop without events: the counter is followed up to this tick
MaxBindings == 2       \* most bindings stored, over all actions
MaxStates == 3         \* the BaseState instances that exist at a time

\* ------------------------------------------------------------- time base
PerformanceFrequency == 4                    \* counter ticks per second
SecondUnits == 2 ^ 28                        \* resolution of a seconds value: 2^-28 s

\* static_cast<T>(ticks) / static_cast<T>(PerformanceFrequency()): the
\* frequency divides SecondUnits, so the quotient is a whole number of units.
TicksToSeconds(ticks) == ticks * (SecondUnits \div PerformanceFrequency)

Elapsed(start, end) == (end - start) * (SecondUnits \div PerformanceFrequency)

\* Min gone wrong: no clamp.
MinKeepsFirst(a, b) == a

\* std::min
Min(a, b) == IF b < a THEN b ELSE a

Max(a, b) == IF a < b THEN b ELSE a

\* ------------------------------------------------------------ input units
Keys == {97}                  \* SDL_Keycode values
MouseButtons == {1}           \* SDL_BUTTON_LEFT
GamepadButtons == {0}         \* SDL_GAMEPAD_BUTTON_SOUTH
JoystickIds == {1}            \* SDL_JoystickID values reported by events
\* 0.3f and 0.5f.  0.3f is not 0.3, but no multiple of a counter tick lies
\* between them, so comparing with 0.3 is comparing with 0.3f.
HoldThresholds == {(3 * SecondUnits) \div 10, SecondUnits \div 2}

DefaultHoldThreshold == (3 * SecondUnits) \div 10

\* the least number of counter ticks that is no less than the default threshold
HoldTicks == CHOOSE n \in 1..PerformanceFrequency :
                /\ TicksToSeconds(n) >= DefaultHoldThreshold
                /\ \A m \in 1..(n - 1) : TicksToSeconds(m) < DefaultHoldThreshold

ButtonStates == {"Up", "Down", "Clicked", "Held", "Released"}

DefaultButtonData ==
    [isDown |-> FALSE, wasDown |-> FALSE, pressTime |-> 0, state |-> "Up"]

EmptyButtons == [u \in {} |-> DefaultButtonData]

EmptyPads == [j \in {} |-> EmptyButtons]

GamepadAxes == {0}            \* SDL_GAMEPAD_AXIS_LEFTX
AxisValues == {-32768, -1, 0, 513, 32767}   \* Sint16 values of axis-motion events
DeviceJoystickIds == {1, 2}   \* joysticks of the device scenario

\* the units the queries ask about: those of the events, and for every kind
\* one that no event is about
QueryJoystickIds == DeviceJoystickIds \cup {3}
QueryButtons == GamepadButtons \cup {1}       \* SDL_GAMEPAD_BUTTON_EAST
QueryAxes == GamepadAxes \cup {1}             \* SDL_GAMEPAD_AXIS_LEFTY

DefaultAxisData == [value |-> 0, scale |-> 1]

EmptyAxes == [u \in {} |-> DefaultAxisData]

ActionNames == {"jump"}               \* action names that get bindings
QueryNames == {"jump", "fire"}        \* action names that are queried

KeyBinding(key) == [kind |-> "key", key |-> key]

MouseBinding(button) == [kind |-> "mouse", button |-> button]

GamepadBinding(button, joystickId) ==
    [kind |-> "gamepad", button |-> button, joystickId |-> joystickId]

\* joystick ids a gamepad binding is made with: 0 ("any") and a device id
BindingJoystickIds == {0, 1}

NoActions == [n \in {} |-> << >>]

VARIABLES
    clock,              \* SDL_GetPerformanceCounter()
    keyboardButtons_,   \* InputManager: SDL_Keycode -> ButtonData
    mouseButtons_,      \* InputManager: Uint8 -> ButtonData
    gamepadButtons_,    \* InputManager: SDL_JoystickID -> button -> ButtonData
    axes_,              \* InputManager: SDL_JoystickID -> axis -> AxisData
    actions_,           \* InputManager: action name -> bindings
    holdThreshold_,     \* InputManager: seconds
    hist,               \* history: what the events since the last update() did
    purged,             \* history: what the latest removal of a joystick erased
    pc,                 \* SdlRuntime::run: position of the main thread
    running_,           \* SdlRuntime::running_
    lagging_,           \* SdlRuntime::lagging_
    loc,                \* SdlRuntime::run: its local variables
    eventQueue,         \* the SDL event queue
    calls,              \* history: callbacks invoked in the current iteration
    obs,                \* history: values the current iteration went through
    trail,              \* history: what the run() calls so far have done
    answer,             \* history: the latest query and what it returned
    states_,            \* StateManager: the stack of states, top last
    delivered,          \* history: what the latest StateManager call did
    timer,              \* time::Clock: start_, end_, running_
    game,               \* SdlGame::run: its position, members and locals
    boot                \* main(): its position and what init() has done

inputVars == <<keyboardButtons_, mouseButtons_, gamepadButtons_, axes_, actions_,
               holdThreshold_>>

runVars == <<pc, running_, lagging_, loc, eventQueue, calls, obs, trail>>

vars == <<clock, keyboardButtons_, mouseButtons_, gamepadButtons_, axes_, actions_,
          holdThreshold_, hist, purged, pc, running_, lagging_, loc, eventQueue, calls, obs,
          trail, answer, states_, delivered, timer, game, boot>>

\* the variables of the queries, the state stack, the clock, SdlGame and main()
auxVars == <<answer, states_, delivered, timer, game, boot>>

\* ------------------------------------------------------------- SDL events
KeyDown(k, rep) == [type |-> "KEY_DOWN", key |-> k, repeat |-> rep]

KeyUp(k) == [type |-> "KEY_UP", key |-> k]

MouseButtonDown(b) == [type |-> "MOUSE_BUTTON_DOWN", button |-> b]

MouseButtonUp(b) == [type |-> "MOUSE_BUTTON_UP", button |-> b]

GamepadButtonDown(b, j) == [type |-> "GAMEPAD_BUTTON_DOWN", button |-> b, which |-> j]

GamepadButtonUp(b, j) == [type |-> "GAMEPAD_BUTTON_UP", button |-> b, which |-> j]

GamepadRemoved(j) == [type |-> "GAMEPAD_REMOVED", which |-> j]

GamepadAxisMotion(a, j, v) ==
    [type |-> "GAMEPAD_AXIS_MOTION", axis |-> a, which |-> j, value |-> v]

ButtonEvents ==
    {KeyDown(k, r) : k \in Keys, r \in BOOLEAN} \cup {KeyUp(k) : k \in Keys}
    \cup {MouseButtonDown(b) : b \in MouseButtons}
    \cup {MouseButtonUp(b) : b \in MouseButtons}
    \cup {GamepadButtonDown(b, j) : b \in GamepadButtons, j \in JoystickIds}
    \cup {GamepadButtonUp(b, j) : b \in GamepadButtons, j \in JoystickIds}

InputEvents == ButtonEvents \cup {GamepadRemoved(j) : j \in JoystickIds}

\* ------------------------------------------------- InputManager: handlers
\* std::unordered_map::operator[] inserts a default record for a new key.
ButtonsAt(m, u) == IF u \in DOMAIN m THEN m ELSE m @@ (u :> DefaultButtonData)

PadsAt(g, j) == IF j \in DOMAIN g THEN g ELSE g @@ (j :> EmptyButtons)

\* Erase gone wrong: the records of the joystick stay.
EraseKeeps(m, j) == m

\* Erase gone wrong: the records of every joystick go.
EraseAll(m, j) == [x \in {} |-> m[x]]

\* std::unordered_map::erase
Erase(m, j) == [x \in DOMAIN m \ {j} |-> m[x]]

onButtonPressKey(m, key, now) ==
    [ButtonsAt(m, key) EXCEPT ![key].isDown = TRUE, ![key].pressTime = now]

onButtonReleaseKey(m, key) ==
    [ButtonsAt(m, key) EXCEPT ![key].isDown = FALSE]

onButtonPressGamepad(g, gamepadButton, now, joystickId) ==
    [PadsAt(g, joystickId) EXCEPT ![joystickId] =
        [ButtonsAt(@, gamepadButton) EXCEPT ![gamepadButton].isDown = TRUE,
                                            ![gamepadButton].pressTime = now]]

onButtonReleaseGamepad(g, gamepadButton, joystickId) ==
    [PadsAt(g, joystickId) EXCEPT ![joystickId] =
        [ButtonsAt(@, gamepadButton) EXCEPT ![gamepadButton].isDown = FALSE]]

onButtonPressMouse(m, mouseButton, now) ==
    [ButtonsAt(m, mouseButton) EXCEPT ![mouseButton].isDown = TRUE,
                                      ![mouseButton].pressTime = now]

\* onButtonReleaseMouse gone wrong: the release stamps the time as a press does.
onButtonReleaseMouseStamps(m, mouseButton) ==
    [ButtonsAt(m, mouseButton) EXCEPT ![mouseButton].isDown = FALSE,
                                      ![mouseButton].pressTime = 0]

onButtonReleaseMouse(m, mouseButton) ==
    [ButtonsAt(m, mouseButton) EXCEPT ![mouseButton].isDown = FALSE]

AxesAt(m, a) == IF a \in DOMAIN m THEN m ELSE m @@ (a :> DefaultAxisData)

AxisPadsAt(x, j) == IF j \in DOMAIN x THEN x ELSE x @@ (j :> EmptyAxes)

\* The SDL_EVENT_GAMEPAD_AXIS_MOTION case: the raw value is stored.
onAxisMotion(x, axis, value, joystickId) ==
    [AxisPadsAt(x, joystickId) EXCEPT ![joystickId] =
        [AxesAt(@, axis) EXCEPT ![axis].value = value]]

\* InputManager::handleEvent: the switch over e.type; time::Now() is clock.
handleEvent(e) ==
    /\ keyboardButtons_' =
         CASE e.type = "KEY_DOWN" ->
                IF ~e.repeat THEN onButtonPressKey(keyboardButtons_, e.key, clock)
                             ELSE keyboardButtons_
           [] e.type = "KEY_UP" -> onButtonReleaseKey(keyboardButtons_, e.key)
           [] OTHER -> keyboardButtons_
    /\ mouseButtons_' =
         CASE e.type = "MOUSE_BUTTON_DOWN" ->
                onButtonPressMouse(mouseButtons_, e.button, clock)
           [] e.type = "MOUSE_BUTTON_UP" ->
                onButtonReleaseMouse(mouseButtons_, e.button)
           [] OTHER -> mouseButtons_
    /\ gamepadButtons_' =
         CASE e.type = "GAMEPAD_BUTTON_DOWN" ->
                onButtonPressGamepad(gamepadButtons_, e.button, clock, e.which)
           [] e.type = "GAMEPAD_BUTTON_UP" ->
                onButtonReleaseGamepad(gamepadButtons_, e.button, e.which)
           [] e.type = "GAMEPAD_REMOVED" -> Erase(gamepadButtons_, e.which)
           [] OTHER -> gamepadButtons_
    /\ axes_' =
         CASE e.type = "GAMEPAD_AXIS_MOTION" ->
                onAxisMotion(axes_, e.axis, e.value, e.which)
           [] e.type = "GAMEPAD_REMOVED" -> Erase(axes_, e.which)
           [] OTHER -> axes_
    /\ UNCHANGED <<holdThreshold_, actions_>>

\* -------------------------------------------------- InputManager: update()
\* GamepadButtonUpdated gone wrong: a hold of exactly the threshold is not yet
\* Held, and a release at exactly the threshold is still Clicked.
GamepadButtonUpdatedStrict(b, now, h) ==
    LET heldTime == TicksToSeconds(now - b.pressTime)
        st == IF b.isDown
                THEN (IF heldTime > h THEN "Held" ELSE "Down")
                ELSE (IF b.wasDown
                        THEN (IF heldTime <= h THEN "Clicked" ELSE "Released")
                        ELSE "Up")
    IN [b EXCEPT !.state = st, !.wasDown = b.isDown]

\* GamepadButtonUpdated gone wrong: every observed release is a click.
GamepadButtonUpdatedAlwaysClicked(b, now, h) ==
    LET heldTime == TicksToSeconds(now - b.pressTime)
        st == IF b.isDown
                THEN (IF heldTime >= h THEN "Held" ELSE "Down")
                ELSE (IF b.wasDown THEN "Clicked" ELSE "Up")
    IN [b EXCEPT !.state = st, !.wasDown = b.isDown]

\* The loop body of updateGamepads for one record.
GamepadButtonUpdated(b, now, h) ==
    LET heldTime == TicksToSeconds(now - b.pressTime)
        st == IF b.isDown
                THEN (IF heldTime >= h THEN "Held" ELSE "Down")
                ELSE (IF b.wasDown
                        THEN (IF heldTime < h THEN "Clicked" ELSE "Released")
                        ELSE "Up")
    IN [b EXCEPT !.state = st, !.wasDown = b.isDown]

\* The loop body of updateMouseButtons for one record.
MouseButtonUpdated(b, now, h) ==
    LET heldTime == TicksToSeconds(now - b.pressTime)
        st == IF b.isDown
                THEN (IF heldTime >= h THEN "Held" ELSE "Down")
                ELSE (IF b.wasDown
                        THEN (IF heldTime < h THEN "Clicked" ELSE "Released")
                        ELSE "Up")
    IN [b EXCEPT !.state = st, !.wasDown = b.isDown]

\* KeyboardButtonUpdated gone wrong: wasDown is never lowered again.
KeyboardButtonUpdatedKeepsWasDown(b, now, h) ==
    LET heldTime == TicksToSeconds(now - b.pressTime)
        st == IF b.isDown
                THEN (IF heldTime >= h THEN "Held" ELSE "Down")
                ELSE (IF b.wasDown
                        THEN (IF heldTime < h THEN "Clicked" ELSE "Released")
                        ELSE "Up")
    IN [b EXCEPT !.state = st, !.wasDown = b.wasDown \/ b.isDown]

\* KeyboardButtonUpdated gone wrong: every observed release is a click.
KeyboardButtonUpdatedAlwaysClicked(b, now, h) ==
    LET heldTime == TicksToSeconds(now - b.pressTime)
        st == IF b.isDown
                THEN (IF heldTime >= h THEN "Held" ELSE "Down")
                ELSE (IF b.wasDown THEN "Clicked" ELSE "Up")
    IN [b EXCEPT !.state = st, !.wasDown = b.isDown]

\* The loop body of updateKeyboardButtons for one record.
KeyboardButtonUpdated(b, now, h) ==
    LET heldTime == TicksToSeconds(now - b.pressTime)
        st == IF b.isDown
                THEN (IF heldTime >= h THEN "Held" ELSE "Down")
                ELSE (IF b.wasDown
                        THEN (IF heldTime < h THEN "Clicked" ELSE "Released")
                        ELSE "Up")
    IN [b EXCEPT !.state = st, !.wasDown = b.isDown]

updateGamepads(g, now, h) ==
    [jid \in DOMAIN g |->
        [btn \in DOMAIN g[jid] |-> GamepadButtonUpdated(g[jid][btn], now, h)]]

updateMouseButtons(m, now, h) ==
    [u \in DOMAIN m |-> MouseButtonUpdated(m[u], now, h)]

updateKeyboardButtons(m, now, h) ==
    [u \in DOMAIN m |-> KeyboardButtonUpdated(m[u], now, h)]

\* InputManager::update: one time::Now(), then the three device routines.
update ==
    /\ gamepadButtons_' = updateGamepads(gamepadButtons_, clock, holdThreshold_)
    /\ mouseButtons_' = updateMouseButtons(mouseButtons_, clock, holdThreshold_)
    /\ keyboardButtons_' = updateKeyboardButtons(keyboardButtons_, clock, holdThreshold_)
    /\ UNCHANGED <<holdThreshold_, axes_, actions_>>

\* --------------------------------------------------- InputManager: queries
\* button-state query gone wrong: it answers from the flag the events set
getButtonStateKeyLive(key) ==
    IF key \in DOMAIN keyboardButtons_
      THEN (IF keyboardButtons_[key].isDown THEN "Down" ELSE "Up")
      ELSE "Up"

getButtonStateKey(key) ==
    IF key \in DOMAIN keyboardButtons_ THEN keyboardButtons_[key].state ELSE "Up"

getButtonStateMouse(mouseButton) ==
    IF mouseButton \in DOMAIN mouseButtons_ THEN mouseButtons_[mouseButton].state ELSE "Up"

getButtonStateGamepad(button, joystickId) ==
    IF joystickId \in DOMAIN gamepadButtons_
         /\ button \in DOMAIN gamepadButtons_[joystickId]
      THEN gamepadButtons_[joystickId][button].state
      ELSE "Up"

getAxisRaw(gamepadAxis, joystickId) ==
    IF joystickId \in DOMAIN axes_ /\ gamepadAxis \in DOMAIN axes_[joystickId]
      THEN axes_[joystickId][gamepadAxis].value
      ELSE 0

\* --------------------------------------- InputManager::getAxisNormalized
\* A float has 24 significant bits.  The values getAxisNormalized returns are
\* counted in units of 2^-30, the two scale factors in units of 2^-38: in
\* these units every float the function goes through is an integer.
SDL_JOYSTICK_AXIS_MAX == 32767

SDL_JOYSTICK_AXIS_MIN == -32768

FloatPrecision == 2 ^ 24

NormUnits == 2 ^ 30

ScaleShift == 2 ^ 8

\* the power of two that is the weight of the lowest of the 24 leading bits
\* of a non-negative integer
RECURSIVE LowestKeptBit(_)
LowestKeptBit(n) == IF n < FloatPrecision THEN 1 ELSE 2 * LowestKeptBit(n \div 2)

\* A non-negative integer rounded to 24 significant bits, to nearest, ties
\* to even: what a float operation does to its exact result.
RoundToFloat(n) ==
    LET q == LowestKeptBit(n)
        hi == n \div q
        lo == n % q
        up == 2 * lo > q \/ (2 * lo = q /\ hi % 2 = 1)
    IN (IF up THEN hi + 1 ELSE hi) * q

\* The float nearest to 1 / divisor, in units of 2^-38, for a divisor in
\* (2^14, 2^15]: the quotient 2^38 / divisor has 24 bits, so it is rounded
\* to an integer.  2^38 is NormUnits * ScaleShift.
FloatReciprocal(divisor) ==
    LET q == NormUnits \div divisor
        r == (NormUnits % divisor) * ScaleShift
    IN q * ScaleShift + r \div divisor + (IF 2 * (r % divisor) > divisor THEN 1 ELSE 0)

\* 1.0f / static_cast<float>(-SDL_JOYSTICK_AXIS_MIN)
INV_NEG == FloatReciprocal(-SDL_JOYSTICK_AXIS_MIN)

\* INV_POS gone wrong: the positive side is scaled as the negative side is.
InvPosOfAxisMin == FloatReciprocal(-SDL_JOYSTICK_AXIS_MIN)

\* 1.0f / static_cast<float>(SDL_JOYSTICK_AXIS_MAX)
INV_POS == FloatReciprocal(SDL_JOYSTICK_AXIS_MAX)

\* static_cast<float>(raw) * scale, in units of 2^-30.  A Sint16 is a float
\* as it is; both scale factors are multiples of 2^8, which the product
\* carries along, so the rounding of the product is done on the rest.
Normalized(raw) ==
    LET scale == IF raw >= 0 THEN INV_POS ELSE INV_NEG
        magnitude == RoundToFloat((IF raw >= 0 THEN raw ELSE -raw) * (scale \div ScaleShift))
    IN IF raw >= 0 THEN magnitude ELSE -magnitude

getAxisNormalized(gamepadAxis, joystickId) == Normalized(getAxisRaw(gamepadAxis, joystickId))

\* std::unordered_map::find gone wrong: the lookup inserts a default record.
FindButtonInserts(m, u) == IF u \in DOMAIN m THEN m ELSE m @@ (u :> DefaultButtonData)

\* std::unordered_map::find on a map of buttons: the map after the lookup
FindButton(m, u) == m

\* std::unordered_map::find on a map of axes: the map after the lookup
FindAxis(m, a) == m

QueryKinds == {"Clicked", "Held", "Down", "Released"}

\* isClicked / isHeld / isDown / isReleased on the state getButtonState returns
StateAnswers(st, q) ==
    CASE q = "Clicked" -> st = "Clicked"
      [] q = "Held" -> st = "Held"
      [] q = "Down" -> st = "Down" \/ st = "Held"
      [] q = "Released" -> st = "Released"

\* The std::visit of isActionClicked / Held / Down / Released on one binding.
BindingAnswers(b, q) ==
    CASE b.kind = "key" -> StateAnswers(getButtonStateKey(b.key), q)
      [] b.kind = "mouse" -> StateAnswers(getButtonStateMouse(b.button), q)
      [] b.kind = "gamepad" ->
            StateAnswers(getButtonStateGamepad(b.button, b.joystickId), q)

\* The for loop of forEachBinding from binding i on: true at the first
\* binding that answers true.
RECURSIVE AnyBindingFrom(_, _, _)
AnyBindingFrom(bindings, i, q) ==
    IF i > Len(bindings) THEN FALSE
    ELSE IF BindingAnswers(bindings[i], q) THEN TRUE
    ELSE AnyBindingFrom(bindings, i + 1, q)

\* forEachBinding gone wrong: only the first binding is asked.
forEachBindingFirstOnly(actionName, q) ==
    IF actionName \in DOMAIN actions_ /\ actions_[actionName] # << >>
      THEN BindingAnswers(actions_[actionName][1], q)
      ELSE FALSE

\* InputManager::forEachBinding with the visitor of query q
forEachBinding(actionName, q) ==
    IF actionName \in DOMAIN actions_
      THEN AnyBindingFrom(actions_[actionName], 1, q)
      ELSE FALSE

isActionClicked(actionName) == forEachBinding(actionName, "Clicked")

isActionHeld(actionName) == forEachBinding(actionName, "Held")

isActionDown(actionName) == forEachBinding(actionName, "Down")

isActionReleased(actionName) == forEachBinding(actionName, "Released")

\* actions_[actionName].bindings.emplace_back(binding)
emplaceBinding(actionName, binding) ==
    IF actionName \in DOMAIN actions_
      THEN [actions_ EXCEPT ![actionName] = Append(@, binding)]
      ELSE actions_ @@ (actionName :> <<binding>>)

BindingsOf(actionName) ==
    IF actionName \in DOMAIN actions_ THEN actions_[actionName] ELSE << >>

\* the bindings stored, over all the actions of the set names
RECURSIVE BindingCountOver(_)
BindingCountOver(names) ==
    IF names = {} THEN 0
    ELSE LET n == CHOOSE n \in names : TRUE
         IN Len(BindingsOf(n)) + BindingCountOver(names \ {n})

BindingCount == BindingCountOver(ActionNames)

\* ----------------------------------------------------------- history
\* For a joystick id whose latest gamepad event was a removal, what that
\* removal erased: <<j, "button">> a button record that was down or not Up,
\* <<j, "axis">> an axis record with a non-zero value.
PurgedAfterEvent(e) ==
    CASE e.type = "GAMEPAD_REMOVED" ->
           {x \in purged : x[1] # e.which}
           \cup {<<e.which, "button">> : b \in
                   {b \in DOMAIN PadsAt(gamepadButtons_, e.which)[e.which] :
                       gamepadButtons_[e.which][b].isDown
                       \/ gamepadButtons_[e.which][b].state # "Up"}}
           \cup {<<e.which, "axis">> : a \in
                   {a \in DOMAIN AxisPadsAt(axes_, e.which)[e.which] :
                       axes_[e.which][a].value # 0}}
      [] e.type \in {"GAMEPAD_BUTTON_DOWN", "GAMEPAD_BUTTON_UP", "GAMEPAD_AXIS_MOTION"} ->
           {x \in purged : x[1] # e.which}
      [] OTHER -> purged

\* For every key and gamepad button: pressed, whether a press event was
\* handled since the last update(); released, whether the release event that
\* followed the latest press came before ("early") or not before ("late")
\* holdThreshold_ had passed since that press ("no": not released since);
\* pulsed and held, whether an update() reported Clicked or Released, and
\* Held, since the latest press.  The program does not read this variable.
NoHistory == [pressed |-> FALSE, released |-> "no", pulsed |-> FALSE, held |-> FALSE]

HistUnits == {<<"key", k>> : k \in Keys}
             \cup {<<"pad", j, b>> : j \in JoystickIds, b \in GamepadButtons}

ReleaseKind(m, u) ==
    IF u \in DOMAIN m /\ m[u].isDown
      THEN (IF TicksToSeconds(clock - m[u].pressTime) < holdThreshold_
              THEN "early" ELSE "late")
      ELSE "no"

PadButtons(j) == IF j \in DOMAIN gamepadButtons_ THEN gamepadButtons_[j] ELSE EmptyButtons

\* the state update() has just stored for a key or gamepad button
StoredAfterUpdate(u) ==
    CASE u[1] = "key" ->
           IF u[2] \in DOMAIN keyboardButtons_'
             THEN keyboardButtons_'[u[2]].state ELSE "Up"
      [] u[1] = "pad" ->
           IF u[2] \in DOMAIN gamepadButtons_' /\ u[3] \in DOMAIN gamepadButtons_'[u[2]]
             THEN gamepadButtons_'[u[2]][u[3]].state ELSE "Up"

HistAfterUpdate ==
    [u \in HistUnits |->
        [hist[u] EXCEPT !.pressed = FALSE,
                        !.pulsed = @ \/ StoredAfterUpdate(u) \in {"Clicked", "Released"},
                        !.held = @ \/ StoredAfterUpdate(u) = "Held"]]

HistAfterEvent(e) ==
    CASE e.type = "KEY_DOWN" /\ ~e.repeat ->
           [hist EXCEPT ![<<"key", e.key>>] =
                [pressed |-> TRUE, released |-> "no", pulsed |-> FALSE, held |-> FALSE]]
      [] e.type = "KEY_UP" ->
           [hist EXCEPT ![<<"key", e.key>>].released =
                IF ReleaseKind(keyboardButtons_, e.key) = "no"
                  THEN @ ELSE ReleaseKind(keyboardButtons_, e.key)]
      [] e.type = "GAMEPAD_BUTTON_DOWN" ->
           [hist EXCEPT ![<<"pad", e.which, e.button>>] =
                [pressed |-> TRUE, released |-> "no", pulsed |-> FALSE, held |-> FALSE]]
      [] e.type = "GAMEPAD_BUTTON_UP" ->
           [hist EXCEPT ![<<"pad", e.which, e.button>>].released =
                IF ReleaseKind(PadButtons(e.which), e.button) = "no"
                  THEN @ ELSE ReleaseKind(PadButtons(e.which), e.button)]
      [] e.type = "GAMEPAD_REMOVED" ->
           [u \in HistUnits |->
                IF u[1] = "pad" /\ u[2] = e.which THEN NoHistory ELSE hist[u]]
      [] OTHER -> hist

\* ------------------------------------------------- SdlRuntime::run: data
Frequencies == {2, 4}                        \* FixedUpdateFrequency values
MaxUpdatesValues == {1, 2}                   \* MaxFixedUpdatesPerTick values
MaxFrameTimes == {SecondUnits, (3 * SecondUnits) \div 4}     \* 1.0 s and 0.75 s

OneSecond == SecondUnits

\* the values run() is not meant to be called with
ZeroFrequency == {0}
ZeroMaxUpdates == {0}
NoFrameTimes == {0}

\* the double +infinity: greater than every time the loop reaches
Infinity == 2 ^ 30

\* 1.0 / static_cast<double>(fixedUpdateFrequency.frequency): the division of
\* the double 1.0 by the double 0.0 gives +infinity.
FixedTimeStepOf(frequency) ==
    IF frequency = 0 THEN Infinity ELSE SecondUnits \div frequency

\* resolution of an interpolation factor: 2^-27; 1.0f is FactorUnits
FactorUnits == 2 ^ 27

\* static_cast<float>(accumulatedTime / fixedTimeStep), in units of
\* 1 / FactorUnits.  A finite step of the model is a power of two, by which
\* the double division is exact, so that the cast rounds the numerator to
\* the 24 bits of a float; a finite time divided by +infinity is 0.
InterpolationFactor(accumulatedTime, fixedTimeStep) ==
    IF fixedTimeStep = Infinity THEN 0
    ELSE RoundToFloat(accumulatedTime) * (FactorUnits \div fixedTimeStep)

\* a maxFrameTime just below a whole number of steps: 0.5 s less 2^-28 s
NearStepFrameTimes == {SecondUnits \div 2 - 1}

\* Fmod gone wrong: one step is dropped instead of every whole step.
FmodDropsOneStep(x, y) == x - y

\* Fmod gone wrong: the accumulator is reset.
FmodResets(x, y) == 0

\* fmod gone wrong: the remainder may keep a whole step.
FmodKeepsAStep(x, y) == x % (2 * y)

\* std::fmod for a non-negative x and a positive y
Fmod(x, y) == x % y

\* FixedUpdateDue gone wrong: the cap is off by one.
FixedUpdateDueOffByOne(accumulatedTime, fixedTimeStep, accumulatedUpdates, maxUpdatesPerFrame) ==
    accumulatedTime >= fixedTimeStep /\ accumulatedUpdates <= maxUpdatesPerFrame

\* the condition of the fixed-update while loop
FixedUpdateDue(accumulatedTime, fixedTimeStep, accumulatedUpdates, maxUpdatesPerFrame) ==
    accumulatedTime >= fixedTimeStep /\ accumulatedUpdates < maxUpdatesPerFrame

\* StillBehind gone wrong: exactly one owed step does not count as lag.
StillBehindStrict(accumulatedTime, fixedTimeStep) == accumulatedTime > fixedTimeStep

\* the lag check after the fixed-update loop
StillBehind(accumulatedTime, fixedTimeStep) == accumulatedTime >= fixedTimeStep

\* time::Min(): std::numeric_limits<Uint64>::min()
TimeMin == 0

NoLocals ==
    [fixedTimeStep |-> 0, maxUpdatesPerFrame |-> 0, maxFrameDeltaTime |-> 0,
     accumulatedTime |-> 0, accumulatedUpdates |-> 0, lastTime |-> 0,
     lastLagWarnTime |-> 0, now |-> 0, frameDelta |-> 0]

\* What the current iteration started from and went through: lastTimeBefore,
\* accBefore and laggingBefore are lastTime, accumulatedTime and lagging_ when
\* the iteration began; accIn is the accumulator after the frame delta was
\* added; dropFrom is the accumulator the lag branch reduced (-1: the branch
\* was not taken); warned: the lag warning was logged in this iteration;
\* polled: the events SDL_PollEvent has handed out in this iteration, in
\* order; behind: the events that were pending behind the quit event when it
\* was polled; quitPolled: handleEvents polled SDL_EVENT_QUIT in this
\* iteration; quitCalled: a callback of this iteration called quit().
NoObs == [lastTimeBefore |-> 0, accBefore |-> 0, laggingBefore |-> FALSE,
          accIn |-> 0, dropFrom |-> -1, warned |-> FALSE,
          polled |-> << >>, behind |-> << >>, quitPolled |-> FALSE,
          quitCalled |-> FALSE]

\* stopped: a run() call has returned; warnCount: the lag warnings the
\* current run() call has logged, counted up to two; warnLast and warnPrev:
\* the counter readings (now) of the latest warning and of the one before;
\* invalid: the current run() call was given a zero frequency, a zero
\* maxUpdates or a maxFrameTime that is not positive; steps: the fixedUpdate
\* calls of the current run() call; deltas: the sum of its clamped frame
\* deltas; dropped: the whole fixed steps its lag branch took off the
\* accumulator, as time; posted: the events the platform has queued since
\* the current run() call began (or, before the first one, since the start).
NoTrail == [stopped |-> FALSE, warnCount |-> 0, warnLast |-> 0, warnPrev |-> 0,
            invalid |-> FALSE, steps |-> 0, deltas |-> 0, dropped |-> 0,
            posted |-> 0]

\* the time of the whole fixed steps that fit in accumulatedTime
WholeSteps(accumulatedTime, fixedTimeStep) ==
    (accumulatedTime \div fixedTimeStep) * fixedTimeStep

\* LagWarnDue gone wrong: a warning is due again after exactly one second.
LagWarnDueAtOneSecond(lastLagWarnTime, now) == Elapsed(lastLagWarnTime, now) >= OneSecond

\* the condition of the lag-warning throttle
LagWarnDue(lastLagWarnTime, now) == Elapsed(lastLagWarnTime, now) > OneSecond

QuitEvent == [type |-> "QUIT"]

WindowEvent == [type |-> "WINDOW_RESIZED"]

InputEventTypes ==
    {"KEY_DOWN", "KEY_UP", "MOUSE_BUTTON_DOWN", "MOUSE_BUTTON_UP", "MOUSE_MOTION",
     "MOUSE_WHEEL", "GAMEPAD_BUTTON_DOWN", "GAMEPAD_BUTTON_UP",
     "GAMEPAD_AXIS_MOTION", "GAMEPAD_REMOVED"}

MouseMotionEvent == [type |-> "MOUSE_MOTION"]

\* the events the platform delivers while the loop runs
RunEvents == {QuitEvent, MouseMotionEvent}

\* unit: the unit asked about; known: it had a record when it was asked
\* about; state, raw, normalized: what getButtonState, getAxisRaw and
\* getAxisNormalized returned (state for a button, the other two for an axis).
NoAnswer == [unit |-> <<"none">>, known |-> FALSE, state |-> "Up", raw |-> 0,
             normalized |-> 0]

\* ------------------------------------------------------------ StateManager
\* The states are told apart by the numbers 1..MaxStates; a null unique_ptr
\* is 0.
StateIds == 1..MaxStates

NullState == 0

\* what a state's onEnter does
OnEnterOutcomes == {"true", "false", "throws"}

\* the four entry points the loop calls
Entries == {"handleEvent", "fixedUpdate", "update", "render"}

\* op: the latest StateManager call; state, onEnter: the state it was given
\* and what that state's onEnter does; before: states_ when it was called;
\* callbacks: the callbacks it invoked, in order, each with the state, the
\* callback and the size of states_ at the time; returned: what it returned.
NoDelivery == [op |-> "none", state |-> NullState, onEnter |-> "true", before |-> << >>,
               callbacks |-> << >>, returned |-> FALSE]

\* The outcome of a call: states_ after it, the callbacks it invoked and the
\* value it returned.
Outcome(states, callbacks, returned) ==
    [states |-> states, callbacks |-> callbacks, returned |-> returned]

Back(stack) == stack[Len(stack)]

PopBack(stack) == SubSeq(stack, 1, Len(stack) - 1)

\* forward gone wrong: every state of the stack gets the call.
forwardToAll(stack, entry) ==
    Outcome(stack, [i \in 1..Len(stack) |-> <<stack[i], entry, Len(stack)>>], TRUE)

\* StateManager::handleEvent, fixedUpdate, update and render
forward(stack, entry) ==
    IF stack = << >> THEN Outcome(stack, << >>, TRUE)
    ELSE Outcome(stack, << <<Back(stack), entry, Len(stack)>> >>, TRUE)

\* pushState gone wrong: a state whose onEnter throws stays on the stack.
pushStateKeepsThrower(stack, state, onEnter) ==
    IF state = NullState THEN Outcome(stack, << >>, FALSE)
    ELSE Outcome(Append(stack, state),
                 << <<state, "onEnter", Len(stack) + 1>> >>, onEnter = "true")

\* StateManager::pushState: the state is pushed, then entered; it is popped
\* again only when onEnter throws.
pushState(stack, state, onEnter) ==
    IF state = NullState THEN Outcome(stack, << >>, FALSE)
    ELSE LET pushed == Append(stack, state)
             entered == << <<state, "onEnter", Len(pushed)>> >>
         IN IF onEnter = "throws" THEN Outcome(PopBack(pushed), entered, FALSE)
            ELSE Outcome(pushed, entered, onEnter = "true")

\* popState gone wrong: the state is removed before its onExit is called.
popStateExitsLate(stack) ==
    IF stack = << >> THEN Outcome(stack, << >>, FALSE)
    ELSE Outcome(PopBack(stack), << <<Back(stack), "onExit", Len(stack) - 1>> >>, TRUE)

\* StateManager::popState
popState(stack) ==
    IF stack = << >> THEN Outcome(stack, << >>, FALSE)
    ELSE Outcome(PopBack(stack), << <<Back(stack), "onExit", Len(stack)>> >>, TRUE)

\* StateManager::clear
RECURSIVE clear(_)
clear(stack) ==
    IF stack = << >> THEN Outcome(stack, << >>, TRUE)
    ELSE LET rest == clear(PopBack(stack))
         IN Outcome(rest.states,
                    << <<Back(stack), "onExit", Len(stack)>> >> \o rest.callbacks, TRUE)

\* replaceTopState gone wrong: the old top is not popped.
replaceTopStateKeepsTop(stack, state, onEnter) == pushState(stack, state, onEnter)

\* StateManager::replaceTopState: popState, then pushState in either case
replaceTopState(stack, state, onEnter) ==
    LET popped == popState(stack)
        pushed == pushState(popped.states, state, onEnter)
    IN Outcome(pushed.states, popped.callbacks \o pushed.callbacks, pushed.returned)

\* the states a caller can hand over: null, or an instance not on the stack
NewStates == {NullState} \cup {n \in StateIds : \A i \in 1..Len(states_) : states_[i] # n}

\* -------------------------------------------------------------- time::Clock
\* the members of a default-constructed Clock
NewClock == [start_ |-> 0, end_ |-> 0, running_ |-> FALSE]

\* The members, and as history: last: the latest call; prev: the call
\* before it; at: the reading of now() the latest call was made at; was: the
\* members before it.
NoTimer == [start_ |-> 0, end_ |-> 0, running_ |-> FALSE, last |-> "none",
            prev |-> "none", at |-> 0, was |-> NewClock]

\* Clock::restart
restart(t, now) == [t EXCEPT !.start_ = now, !.end_ = now, !.running_ = TRUE]

\* start gone wrong: a running clock is started anew.
startRestarts(t, now) == restart(t, now)

\* Clock::start
start(t, now) ==
    IF t.running_ THEN t
    ELSE [t EXCEPT !.running_ = TRUE, !.start_ = now, !.end_ = now]

\* stop gone wrong: the clock keeps running.
stopKeepsRunning(t, now) == [t EXCEPT !.end_ = now]

\* Clock::stop
stop(t, now) == [t EXCEPT !.running_ = FALSE, !.end_ = now]

\* Clock::reset
reset(t, now) == [t EXCEPT !.start_ = now, !.end_ = now, !.running_ = FALSE]

\* Clock::elapsed
elapsed(t, now) == IF t.running_ THEN now - t.start_ ELSE t.end_ - t.start_

\* ------------------------------------------------------------ SdlGame::run
\* pc: the position of the main thread in SdlGame::run ("destroyed": the
\* SdlGame is gone); running_, lagging_:
\* the members; tickPeriod ... now, frameDelta: the locals of run(); as
\* history, warnCount: the lag warnings logged, counted up to two; warnLast
\* and warnPrev: the counter readings (now) of the latest warning and of the
\* one before.
NoGame == [pc |-> "idle", running_ |-> FALSE, lagging_ |-> FALSE, tickPeriod |-> 0,
           maxUpdates |-> 0, accumulatedTime |-> 0, accumulatedUpdates |-> 0,
           lastCounter |-> 0, lastLagWarnCounter |-> 0, now |-> 0, frameDelta |-> 0,
           warnCount |-> 0, warnLast |-> 0, warnPrev |-> 0]

\* the condition of SdlGame's lag-warning throttle, in counter ticks
GameLagWarnDue(lastLagWarnCounter, now) == (now - lastLagWarnCounter) > PerformanceFrequency

\* pc: where main() is ("start", "initialised": init() returned true,
\* "failed": init() returned false, or "exited": main() has returned and the
\* SdlRuntime is destroyed); result: what init() returned; window_,
\* renderer_: the pointer is set; made: the library calls init() made, in
\* order, each with its success; withTtf, withMixer: the build has
\* PSYENGINE_WITH_TTF, PSYENGINE_WITH_MIXER; movedFrom: an SdlRuntime that the
\* runtime was moved out of is alive; torn: the calls the destructors made.
NoBoot == [pc |-> "start", result |-> "none", window_ |-> FALSE, renderer_ |-> FALSE,
           made |-> << >>, withTtf |-> FALSE, withMixer |-> FALSE,
           movedFrom |-> FALSE, torn |-> << >>]

\* The calls of SdlRuntime::~SdlRuntime, in order.
Teardown(withTtf, withMixer) ==
    <<"StateManager::clear", "renderer_.reset", "window_.reset">>
    \o (IF withMixer THEN <<"MIX_Quit">> ELSE << >>)
    \o (IF withTtf THEN <<"TTF_Quit">> ELSE << >>)
    \o <<"SDL_Quit">>

\* The library calls of init(), in order.  TTF_Init and MIX_Init are part of
\* builds with PSYENGINE_WITH_TTF and PSYENGINE_WITH_MIXER only.
InitCalls(withTtf, withMixer) ==
    <<"SDL_Init">> \o (IF withTtf THEN <<"TTF_Init">> ELSE << >>)
    \o (IF withMixer THEN <<"MIX_Init">> ELSE << >>)
    \o <<"SDL_CreateWindowAndRenderer">>

\* The calls init() makes when the call at position failAt fails (0: none
\* fails): every call up to the first failure.
RECURSIVE MadeFrom(_, _, _)
MadeFrom(todo, i, failAt) ==
    IF i > Len(todo) THEN << >>
    ELSE IF i = failAt THEN << <<todo[i], FALSE>> >>
    ELSE << <<todo[i], TRUE>> >> \o MadeFrom(todo, i + 1, failAt)

\* ------------------------------------------------------------ the machine
Init ==
    /\ clock = 0
    /\ keyboardButtons_ = EmptyButtons
    /\ mouseButtons_ = EmptyButtons
    /\ gamepadButtons_ = EmptyPads
    /\ axes_ = EmptyPads
    /\ actions_ = NoActions
    /\ holdThreshold_ = DefaultHoldThreshold
    /\ hist = [u \in HistUnits |-> NoHistory]
    /\ purged = {}
    /\ pc = "idle"
    /\ running_ = FALSE
    /\ lagging_ = FALSE
    /\ loc = NoLocals
    /\ eventQueue = << >>
    /\ calls = << >>
    /\ obs = NoObs
    /\ trail = NoTrail
    /\ answer = NoAnswer
    /\ states_ = << >>
    /\ delivered = NoDelivery
    /\ timer = NoTimer
    /\ game = NoGame
    /\ boot = NoBoot

\* Wall time passes: the performance counter advances.
AdvanceClock ==
    /\ clock + 1 <= MaxClock
    /\ clock' = clock + 1
    /\ UNCHANGED <<inputVars, hist, purged, runVars, auxVars>>

\* One event handed to InputManager::handleEvent.
HandleEventOf(e) ==
    /\ handleEvent(e)
    /\ hist' = HistAfterEvent(e)
    /\ purged' = PurgedAfterEvent(e)
    /\ UNCHANGED <<clock, runVars, auxVars>>

HandleEvent == \E e \in InputEvents : HandleEventOf(e)

\* A caller runs InputManager::update.
Update ==
    /\ update
    /\ hist' = HistAfterUpdate
    /\ purged' = purged
    /\ UNCHANGED <<clock, runVars, auxVars>>

\* A caller runs InputManager::setHoldThreshold.
SetHoldThreshold ==
    \E seconds \in HoldThresholds :
        /\ holdThreshold_' = seconds
        /\ UNCHANGED <<clock, keyboardButtons_, mouseButtons_, gamepadButtons_, axes_,
                       actions_, hist, purged, runVars, auxVars>>

\* Wall time passes: the counter advances by the ticks of one hold threshold.
HoldClock ==
    /\ clock + HoldTicks <= MaxClock
    /\ clock' = clock + HoldTicks
    /\ UNCHANGED <<inputVars, hist, purged, runVars, auxVars>>

\* A caller runs InputManager::bindActionKey.
BindActionKey ==
    \E actionName \in ActionNames, key \in Keys :
        /\ BindingCount < MaxBindings
        /\ actions_' = emplaceBinding(actionName, KeyBinding(key))
        /\ UNCHANGED <<clock, keyboardButtons_, mouseButtons_, gamepadButtons_, axes_,
                       holdThreshold_, hist, purged, runVars, auxVars>>

\* A caller runs InputManager::bindActionMouseButton.
BindActionMouseButton ==
    \E actionName \in ActionNames, button \in MouseButtons :
        /\ BindingCount < MaxBindings
        /\ actions_' = emplaceBinding(actionName, MouseBinding(button))
        /\ UNCHANGED <<clock, keyboardButtons_, mouseButtons_, gamepadButtons_, axes_,
                       holdThreshold_, hist, purged, runVars, auxVars>>

\* A caller runs InputManager::bindActionGamepadButton.
BindActionGamepadButton ==
    \E actionName \in ActionNames, button \in GamepadButtons,
       joystickId \in BindingJoystickIds :
        /\ BindingCount < MaxBindings
        /\ actions_' = emplaceBinding(actionName, GamepadBinding(button, joystickId))
        /\ UNCHANGED <<clock, keyboardButtons_, mouseButtons_, gamepadButtons_, axes_,
                       holdThreshold_, hist, purged, runVars, auxVars>>

\* The events of the action scenario: a key, a mouse button, a gamepad button.
ActionEvents == {e \in ButtonEvents : e.type = "KEY_DOWN" => ~e.repeat}

\* One button event handed to InputManager::handleEvent.
ActionEventOf(e) ==
    /\ handleEvent(e)
    /\ UNCHANGED <<clock, hist, purged, runVars, auxVars>>

ActionEvent == \E e \in ActionEvents : ActionEventOf(e)

\* The events of the device scenario: two gamepads with a button and an axis.
DeviceEvents ==
    {GamepadButtonDown(b, j) : b \in GamepadButtons, j \in DeviceJoystickIds}
    \cup {GamepadButtonUp(b, j) : b \in GamepadButtons, j \in DeviceJoystickIds}
    \cup {GamepadAxisMotion(a, j, v) : a \in GamepadAxes, j \in DeviceJoystickIds,
                                      v \in AxisValues}
    \cup {GamepadRemoved(j) : j \in DeviceJoystickIds}

\* One gamepad event handed to InputManager::handleEvent.
DeviceEventOf(e) ==
    /\ handleEvent(e)
    /\ purged' = PurgedAfterEvent(e)
    /\ UNCHANGED <<clock, hist, runVars, auxVars>>

DeviceEvent == \E e \in DeviceEvents : DeviceEventOf(e)

\* The events of the axis scenario: axis motion and removal of two gamepads.
AxisEvents == {e \in DeviceEvents : e.type \in {"GAMEPAD_AXIS_MOTION", "GAMEPAD_REMOVED"}}

AxisEvent == \E e \in AxisEvents : DeviceEventOf(e)

\* A caller runs getButtonState(SDL_Keycode).
QueryKey ==
    \E key \in Keys :
        /\ keyboardButtons_' = FindButton(keyboardButtons_, key)
        /\ answer' = [NoAnswer EXCEPT !.unit = <<"key", key>>,
                                      !.known = key \in DOMAIN keyboardButtons_,
                                      !.state = getButtonStateKey(key)]
        /\ UNCHANGED <<clock, mouseButtons_, gamepadButtons_, axes_, actions_,
                       holdThreshold_, hist, purged, runVars, states_, delivered, timer,
                       game, boot>>

\* A caller runs getButtonState(Uint8).
QueryMouse ==
    \E mouseButton \in MouseButtons :
        /\ mouseButtons_' = FindButton(mouseButtons_, mouseButton)
        /\ answer' = [NoAnswer EXCEPT !.unit = <<"mouse", mouseButton>>,
                                      !.known = mouseButton \in DOMAIN mouseButtons_,
                                      !.state = getButtonStateMouse(mouseButton)]
        /\ UNCHANGED <<clock, keyboardButtons_, gamepadButtons_, axes_, actions_,
                       holdThreshold_, hist, purged, runVars, states_, delivered, timer,
                       game, boot>>

\* A caller runs getButtonState(SDL_GamepadButton, SDL_JoystickID): the
\* buttons of the joystick are looked up only if the joystick is found.
QueryGamepad ==
    \E button \in QueryButtons, joystickId \in QueryJoystickIds :
        /\ gamepadButtons_' =
             IF joystickId \in DOMAIN gamepadButtons_
               THEN [gamepadButtons_ EXCEPT ![joystickId] = FindButton(@, button)]
               ELSE gamepadButtons_
        /\ answer' = [NoAnswer EXCEPT
                         !.unit = <<"pad", joystickId, button>>,
                         !.known = /\ joystickId \in DOMAIN gamepadButtons_
                                   /\ button \in DOMAIN gamepadButtons_[joystickId],
                         !.state = getButtonStateGamepad(button, joystickId)]
        /\ UNCHANGED <<clock, keyboardButtons_, mouseButtons_, axes_, actions_,
                       holdThreshold_, hist, purged, runVars, states_, delivered, timer,
                       game, boot>>

\* A caller runs getAxisRaw and getAxisNormalized.
QueryAxis ==
    \E gamepadAxis \in QueryAxes, joystickId \in QueryJoystickIds :
        /\ axes_' =
             IF joystickId \in DOMAIN axes_
               THEN [axes_ EXCEPT ![joystickId] = FindAxis(@, gamepadAxis)]
               ELSE axes_
        /\ answer' = [NoAnswer EXCEPT
                         !.unit = <<"axis", joystickId, gamepadAxis>>,
                         !.known = /\ joystickId \in DOMAIN axes_
                                   /\ gamepadAxis \in DOMAIN axes_[joystickId],
                         !.raw = getAxisRaw(gamepadAxis, joystickId),
                         !.normalized = getAxisNormalized(gamepadAxis, joystickId)]
        /\ UNCHANGED <<clock, keyboardButtons_, mouseButtons_, gamepadButtons_, actions_,
                       holdThreshold_, hist, purged, runVars, states_, delivered, timer,
                       game, boot>>

\* ------------------------------------------------- StateManager: calls
\* A StateManager call with the outcome out.
StateCall(op, state, onEnter, out) ==
    /\ states_' = out.states
    /\ delivered' = [op |-> op, state |-> state, onEnter |-> onEnter, before |-> states_,
                     callbacks |-> out.callbacks, returned |-> out.returned]
    /\ UNCHANGED <<clock, inputVars, hist, purged, runVars, answer, timer, game, boot>>

Forward ==
    \E entry \in Entries : StateCall(entry, NullState, "true", forward(states_, entry))

PushState ==
    \E state \in NewStates, onEnter \in OnEnterOutcomes :
        StateCall("pushState", state, onEnter, pushState(states_, state, onEnter))

PopState == StateCall("popState", NullState, "true", popState(states_))

Clear == StateCall("clear", NullState, "true", clear(states_))

ReplaceTopState ==
    \E state \in NewStates, onEnter \in OnEnterOutcomes :
        StateCall("replaceTopState", state, onEnter,
                  replaceTopState(states_, state, onEnter))

\* ---------------------------------------------------- time::Clock: calls
\* A call of a Clock member function; Clock::now() reads clock.
ClockCall(op, next) ==
    /\ timer' = [next EXCEPT !.last = op, !.prev = timer.last, !.at = clock,
                             !.was = [start_ |-> timer.start_, end_ |-> timer.end_,
                                      running_ |-> timer.running_]]
    /\ UNCHANGED <<clock, inputVars, hist, purged, runVars, answer, states_, delivered,
                   game, boot>>

ClockStart == ClockCall("start", start(timer, clock))

ClockStop == ClockCall("stop", stop(timer, clock))

ClockRestart == ClockCall("restart", restart(timer, clock))

ClockReset == ClockCall("reset", reset(timer, clock))

\* --------------------------------------------------- SdlGame::run: steps
\* The other variables of the model stay as they are in a step of SdlGame.
GameOnly == UNCHANGED <<inputVars, hist, purged, runVars, answer, states_, delivered,
                        timer, boot>>

\* run(): the statements before the while loop, entered with the main thread
\* at position from.
GameRunFrom(from) ==
    \E fixedUpdateFrequency \in Frequencies, maxUpdatesPerTick \in MaxUpdatesValues :
        /\ game.pc = from
        /\ game' = [NoGame EXCEPT !.pc = "frame", !.running_ = TRUE,
                                  !.lagging_ = game.lagging_,
                                  !.tickPeriod = FixedTimeStepOf(fixedUpdateFrequency),
                                  !.maxUpdates = Max(1, maxUpdatesPerTick),
                                  !.lastCounter = clock]
        /\ UNCHANGED clock
        /\ GameOnly

\* run() is called on an SdlGame that has not run yet.
GameRun == GameRunFrom("idle")

\* run() is called again after an earlier run() call has returned.
GameRunAgain == GameRunFrom("returned")

\* Wall time passes: before run() is called, between and inside the steps
\* of the loop, and after run() has returned.
GameClock ==
    /\ clock + 1 <= MaxLagClock
    /\ clock' = clock + 1
    /\ UNCHANGED game
    /\ GameOnly

\* Top of the loop body: frame delta, clamp to one second, accumulate;
\* handleEvents(), which may poll SDL_EVENT_QUIT; updateInputState().
GameBeginFrame ==
    \E quit \in BOOLEAN :
        /\ game.pc = "frame"
        /\ LET now == clock
               frameDelta == Min(TicksToSeconds(now - game.lastCounter), OneSecond)
           IN game' = [game EXCEPT !.now = now, !.frameDelta = frameDelta,
                                   !.lastCounter = now,
                                   !.accumulatedTime = @ + frameDelta,
                                   !.running_ = ~quit,
                                   !.pc = "fixed"]
        /\ UNCHANGED clock
        /\ GameOnly

\* One pass of the fixed-update while loop; the callback may call quit().
GameFixedStep ==
    \E quits \in BOOLEAN :
        /\ game.pc = "fixed"
        /\ FixedUpdateDue(game.accumulatedTime, game.tickPeriod, game.accumulatedUpdates,
                          game.maxUpdates)
        /\ game' = [game EXCEPT !.accumulatedTime = @ - game.tickPeriod,
                                !.accumulatedUpdates = @ + 1,
                                !.running_ = @ /\ ~quits]
        /\ UNCHANGED clock
        /\ GameOnly

\* The fixed-update loop has ended: the lag check and the counter reset.
GameLagCheck ==
    /\ game.pc = "fixed"
    /\ ~FixedUpdateDue(game.accumulatedTime, game.tickPeriod, game.accumulatedUpdates,
                       game.maxUpdates)
    /\ game' =
         IF StillBehind(game.accumulatedTime, game.tickPeriod)
           THEN LET warn == GameLagWarnDue(game.lastLagWarnCounter, game.now)
                IN [game EXCEPT
                      !.accumulatedTime = Fmod(game.accumulatedTime, game.tickPeriod),
                      !.lagging_ = TRUE,
                      !.lastLagWarnCounter = IF warn THEN game.now ELSE @,
                      !.warnCount = IF warn /\ @ < 2 THEN @ + 1 ELSE @,
                      !.warnLast = IF warn THEN game.now ELSE @,
                      !.warnPrev = IF warn THEN game.warnLast ELSE @,
                      !.accumulatedUpdates = 0,
                      !.pc = "update"]
           ELSE [game EXCEPT !.lastLagWarnCounter = 0, !.lagging_ = FALSE,
                             !.accumulatedUpdates = 0, !.pc = "update"]
    /\ UNCHANGED clock
    /\ GameOnly

\* A callback of SdlGame's loop returns and the main thread is at position
\* next; the callback may have called quit().
GameCallback(at, next) ==
    \E quits \in BOOLEAN :
        /\ game.pc = at
        /\ game' = [game EXCEPT !.running_ = @ /\ ~quits, !.pc = next]
        /\ UNCHANGED clock
        /\ GameOnly

\* update(frameDelta)
GameUpdate == GameCallback("update", "render")

\* render(alpha)
GameRender == GameCallback("render", "delay")

\* SDL_Delay(1) returns; the time it has taken is the counter's to tell.
GameDelay ==
    /\ game.pc = "delay"
    /\ game' = [game EXCEPT !.pc = "test"]
    /\ UNCHANGED clock
    /\ GameOnly

\* The loop test while (running_): the next iteration, or run() returns.
GameLoopTest ==
    /\ game.pc = "test"
    /\ game' = [game EXCEPT !.pc = IF game.running_ THEN "frame" ELSE "returned"]
    /\ UNCHANGED clock
    /\ GameOnly

\* ------------------------------------------------------ main() and init()
\* main() calls SdlRuntime::init: each library call returns false at once
\* when it fails; window_ and renderer_ are set after the last one.
MainInit ==
    \E withTtf \in BOOLEAN, withMixer \in BOOLEAN, failAt \in 0..4 :
        LET todo == InitCalls(withTtf, withMixer)
            ok == failAt = 0
        IN /\ boot.pc = "start"
           /\ failAt <= Len(todo)
           /\ boot' = [NoBoot EXCEPT
                         !.pc = IF ok THEN "initialised" ELSE "failed",
                         !.result = IF ok THEN "true" ELSE "false",
                         !.window_ = ok, !.renderer_ = ok,
                         !.made = MadeFrom(todo, 1, failAt),
                         !.withTtf = withTtf, !.withMixer = withMixer]
           /\ UNCHANGED <<clock, inputVars, hist, purged, runVars, answer, states_,
                          delivered, timer, game>>

\* main() pushes a state before it calls run(), up to two of them.
MainPush ==
    \E onEnter \in OnEnterOutcomes :
        LET state == CHOOSE n \in NewStates \ {NullState} :
                         \A m \in NewStates \ {NullState} : n <= m
        IN /\ boot.pc = "initialised"
           /\ pc = "idle"
           /\ Len(states_) < 2
           /\ StateCall("pushState", state, onEnter, pushState(states_, state, onEnter))

\* StateManager::instance().clear() in a destructor of SdlRuntime or SdlGame
DestructorClears ==
    /\ states_' = clear(states_).states
    /\ delivered' = [op |-> "clear", state |-> NullState, onEnter |-> "true",
                     before |-> states_, callbacks |-> clear(states_).callbacks,
                     returned |-> TRUE]

\* SdlRuntime(SdlRuntime&&) and operator=(SdlRuntime&&), once, before run()
\* is called: running_ and lagging_ are copied, window_ and renderer_ move
\* to the new object, which the model follows from here on; the object
\* moved from stays alive with both pointers null.
MoveRuntime ==
    /\ boot.pc = "initialised"
    /\ pc = "idle"
    /\ ~boot.movedFrom
    /\ boot.torn = << >>
    /\ boot' = [boot EXCEPT !.movedFrom = TRUE]
    /\ UNCHANGED <<clock, inputVars, hist, purged, runVars, answer, states_, delivered,
                   timer, game>>

\* ~SdlRuntime of the object moved from, whenever that object dies: before
\* run() is called, inside a callback of the loop, after run() has returned
\* while the new object is alive, or at the end of main() after the new
\* object (locals are destroyed in reverse order).  It clears the
\* StateManager, resets its null pointers and quits the libraries.
MovedFromDestroyed ==
    /\ boot.movedFrom
    /\ boot.pc \in {"initialised", "exited"}
    /\ DestructorClears
    /\ boot' = [boot EXCEPT !.movedFrom = FALSE,
                            !.torn = @ \o Teardown(boot.withTtf, boot.withMixer)]
    /\ UNCHANGED <<clock, inputVars, hist, purged, runVars, answer, timer, game>>

\* main() returns, with 1 after a failed init() and with 0 after run(), and
\* ~SdlRuntime runs: StateManager::clear(), renderer_ and window_ reset, the
\* libraries quit.
MainReturn ==
    /\ boot.pc = "failed" \/ (boot.pc = "initialised" /\ pc = "returned")
    /\ DestructorClears
    /\ boot' = [boot EXCEPT !.pc = "exited", !.window_ = FALSE, !.renderer_ = FALSE,
                            !.torn = @ \o Teardown(boot.withTtf, boot.withMixer)]
    /\ UNCHANGED <<clock, inputVars, hist, purged, runVars, answer, timer, game>>

\* The application pushes a state before it calls SdlGame::run(), up to two
\* of them.
GamePush ==
    \E onEnter \in OnEnterOutcomes :
        LET state == CHOOSE n \in NewStates \ {NullState} :
                         \A m \in NewStates \ {NullState} : n <= m
        IN /\ game.pc = "idle"
           /\ Len(states_) < 2
           /\ StateCall("pushState", state, onEnter, pushState(states_, state, onEnter))

\* ~SdlGame, before run() is called or after it has returned:
\* StateManager::clear(), renderer_ and window_ reset, the libraries quit.
GameDestroyed ==
    /\ game.pc \in {"idle", "returned"}
    /\ DestructorClears
    /\ game' = [game EXCEPT !.pc = "destroyed"]
    /\ UNCHANGED <<clock, inputVars, hist, purged, runVars, answer, timer, boot>>

\* InitSucceeded gone wrong: main() ignores what init() returned.
InitIgnored == boot.pc # "start"

\* main(): run() is reached only past the return on a failed init().
InitSucceeded == boot.pc = "initialised"

\* ------------------------------------------------ SdlRuntime::run: steps
\* run(): the statements before the while loop, entered with the main thread
\* at position from.
RunWith(from, frequency, maxUpdates, maxFrameTime) ==
    /\ pc = from
    /\ loc' = [fixedTimeStep |-> FixedTimeStepOf(frequency),
               maxUpdatesPerFrame |-> Max(1, maxUpdates),
               maxFrameDeltaTime |-> maxFrameTime,
               accumulatedTime |-> 0, accumulatedUpdates |-> 0,
               lastTime |-> clock, lastLagWarnTime |-> TimeMin,
               now |-> 0, frameDelta |-> 0]
    /\ running_' = TRUE
    /\ pc' = "frame"
    /\ calls' = << >>
    /\ obs' = NoObs
    /\ trail' = [NoTrail EXCEPT
                   !.stopped = trail.stopped,
                   !.invalid = frequency = 0 \/ maxUpdates = 0 \/ maxFrameTime <= 0]
    /\ UNCHANGED <<clock, inputVars, hist, purged, lagging_, eventQueue, auxVars>>

\* run() with arguments that meet its preconditions
RunFrom(from) ==
    \E frequency \in Frequencies, maxUpdates \in MaxUpdatesValues,
       maxFrameTime \in MaxFrameTimes :
        RunWith(from, frequency, maxUpdates, maxFrameTime)

\* assert(maxFixedUpdatesPerTick.maxUpdates > 0) fails: the process aborts.
\* Only a build without NDEBUG has the assertion.
AssertFails ==
    /\ pc = "idle"
    /\ pc' = "aborted"
    /\ trail' = [trail EXCEPT !.invalid = TRUE]
    /\ UNCHANGED <<clock, inputVars, hist, purged, running_, lagging_, loc, eventQueue,
                   calls, obs, auxVars>>

\* run() with any arguments, in a build with or without assertions
RunConfig ==
    \E frequency \in Frequencies \cup ZeroFrequency,
       maxUpdates \in MaxUpdatesValues \cup ZeroMaxUpdates,
       maxFrameTime \in MaxFrameTimes \cup NoFrameTimes,
       assertions \in BOOLEAN :
        IF assertions /\ ~(maxUpdates > 0)
          THEN AssertFails
          ELSE RunWith("idle", frequency, maxUpdates, maxFrameTime)

\* run() is called on a runtime that has not run yet.
Run == RunFrom("idle")

\* run() is called again after an earlier run() call has returned.
RunAgain == RunFrom("returned")

\* Wall time passes: the counter runs from the start of the process, before
\* run() is called, between and inside the steps of the loop (the callbacks
\* take time, and InputManager::handleEvent and InputManager::update read
\* the counter on their own), and after run() has returned.
RunClock ==
    /\ clock + 1 <= MaxRunClock
    /\ clock' = clock + 1
    /\ UNCHANGED <<inputVars, hist, purged, runVars, auxVars>>

\* The platform queues event e, at any time: before run() is called, between
\* two iterations, while handleEvents() is polling, in the rest of an
\* iteration and after run() has returned.  SDL_PollEvent hands the events
\* out in order.  The event is the next of at most budget events that are
\* followed per run() call.
PostWithin(e, budget) ==
    /\ Len(eventQueue) < MaxQueue
    /\ trail.posted < budget
    /\ eventQueue' = Append(eventQueue, e)
    /\ trail' = [trail EXCEPT !.posted = @ + 1]
    /\ UNCHANGED <<clock, inputVars, hist, purged, pc, running_, lagging_, loc, calls, obs, auxVars>>

Post(e) == PostWithin(e, MaxPosted)

PostEvent == \E e \in RunEvents : Post(e)

\* Top of the loop body: frame delta, clamp, accumulate.
BeginFrame ==
    /\ pc = "frame"
    /\ LET now == clock
           frameDelta == Min(Elapsed(loc.lastTime, now), loc.maxFrameDeltaTime)
       IN /\ loc' = [loc EXCEPT !.now = now, !.frameDelta = frameDelta,
                                !.lastTime = now,
                                !.accumulatedTime = @ + frameDelta]
          /\ obs' = [NoObs EXCEPT !.lastTimeBefore = loc.lastTime,
                                  !.accBefore = loc.accumulatedTime,
                                  !.laggingBefore = lagging_,
                                  !.accIn = loc.accumulatedTime + frameDelta]
          /\ trail' = [trail EXCEPT !.deltas = @ + frameDelta]
    /\ calls' = << >>
    /\ pc' = "events"
    /\ UNCHANGED <<clock, inputVars, hist, purged, running_, lagging_, eventQueue, auxVars>>

\* PollNone gone wrong: the input update is skipped.
PollNoneSkipsInput ==
    /\ pc = "events"
    /\ eventQueue = << >>
    /\ pc' = "fixed"
    /\ UNCHANGED <<clock, inputVars, hist, purged, running_, lagging_, loc, eventQueue, calls, obs,
                   trail, auxVars>>

\* handleEvents(): SDL_PollEvent finds the queue empty.
PollNone ==
    /\ pc = "events"
    /\ eventQueue = << >>
    /\ pc' = "input"
    /\ UNCHANGED <<clock, inputVars, hist, purged, running_, lagging_, loc, eventQueue, calls, obs,
                   trail, auxVars>>

\* PollQuit gone wrong: the quit event does not end the pumping.
PollQuitKeepsPumping ==
    /\ pc = "events"
    /\ eventQueue # << >>
    /\ Head(eventQueue).type = "QUIT"
    /\ eventQueue' = Tail(eventQueue)
    /\ running_' = FALSE
    /\ obs' = [obs EXCEPT !.quitPolled = TRUE, !.polled = Append(@, Head(eventQueue)),
                          !.behind = Tail(eventQueue)]
    /\ pc' = "events"
    /\ UNCHANGED <<clock, inputVars, hist, purged, lagging_, loc, calls, trail, auxVars>>

\* handleEvents(): SDL_EVENT_QUIT clears running_ and returns to run().
PollQuit ==
    /\ pc = "events"
    /\ eventQueue # << >>
    /\ Head(eventQueue).type = "QUIT"
    /\ eventQueue' = Tail(eventQueue)
    /\ running_' = FALSE
    /\ obs' = [obs EXCEPT !.quitPolled = TRUE, !.polled = Append(@, Head(eventQueue)),
                          !.behind = Tail(eventQueue)]
    /\ pc' = "input"
    /\ UNCHANGED <<clock, inputVars, hist, purged, lagging_, loc, calls, trail, auxVars>>

\* PollInput gone wrong: the StateManager gets the event first.
PollInputStateManagerFirst ==
    \E quits \in BOOLEAN :
        /\ pc = "events"
        /\ eventQueue # << >>
        /\ Head(eventQueue).type \in InputEventTypes
        /\ eventQueue' = Tail(eventQueue)
        /\ handleEvent(Head(eventQueue))
        /\ hist' = HistAfterEvent(Head(eventQueue))
        /\ purged' = PurgedAfterEvent(Head(eventQueue))
        /\ calls' = calls \o << <<"StateManager::handleEvent", Head(eventQueue)>>,
                                <<"InputManager::handleEvent", Head(eventQueue)>> >>
        /\ running_' = IF quits THEN FALSE ELSE running_
        /\ obs' = [obs EXCEPT !.quitCalled = @ \/ quits,
                              !.polled = Append(@, Head(eventQueue))]
        /\ UNCHANGED <<clock, pc, lagging_, loc, trail, auxVars>>

\* handleEvents(): an input event goes to the InputManager and falls through
\* to the StateManager, whose callback may call quit().
PollInput ==
    \E quits \in BOOLEAN :
        /\ pc = "events"
        /\ eventQueue # << >>
        /\ Head(eventQueue).type \in InputEventTypes
        /\ eventQueue' = Tail(eventQueue)
        /\ handleEvent(Head(eventQueue))
        /\ hist' = HistAfterEvent(Head(eventQueue))
        /\ purged' = PurgedAfterEvent(Head(eventQueue))
        /\ calls' = calls \o << <<"InputManager::handleEvent", Head(eventQueue)>>,
                                <<"StateManager::handleEvent", Head(eventQueue)>> >>
        /\ running_' = IF quits THEN FALSE ELSE running_
        /\ obs' = [obs EXCEPT !.quitCalled = @ \/ quits,
                              !.polled = Append(@, Head(eventQueue))]
        /\ UNCHANGED <<clock, pc, lagging_, loc, trail, auxVars>>

\* handleEvents(): any other event goes to the StateManager only, whose
\* callback may call quit().
PollOther ==
    \E quits \in BOOLEAN :
        /\ pc = "events"
        /\ eventQueue # << >>
        /\ Head(eventQueue).type \notin InputEventTypes \cup {"QUIT"}
        /\ eventQueue' = Tail(eventQueue)
        /\ calls' = Append(calls, <<"StateManager::handleEvent", Head(eventQueue)>>)
        /\ running_' = IF quits THEN FALSE ELSE running_
        /\ obs' = [obs EXCEPT !.quitCalled = @ \/ quits,
                              !.polled = Append(@, Head(eventQueue))]
        /\ UNCHANGED <<clock, inputVars, hist, purged, pc, lagging_, loc, trail, auxVars>>

\* input::InputManager::instance().update()
InputUpdate ==
    /\ pc = "input"
    /\ update
    /\ hist' = HistAfterUpdate
    /\ purged' = purged
    /\ calls' = Append(calls, <<"InputManager::update">>)
    /\ pc' = "fixed"
    /\ UNCHANGED <<clock, running_, lagging_, loc, eventQueue, obs, trail, auxVars>>

\* One pass of the fixed-update while loop; the callback may call quit().
FixedStep ==
    \E quits \in BOOLEAN :
        /\ pc = "fixed"
        /\ FixedUpdateDue(loc.accumulatedTime, loc.fixedTimeStep,
                          loc.accumulatedUpdates, loc.maxUpdatesPerFrame)
        /\ loc' = [loc EXCEPT !.accumulatedTime = @ - loc.fixedTimeStep,
                              !.accumulatedUpdates = @ + 1]
        /\ calls' = Append(calls, <<"fixedUpdate", loc.fixedTimeStep>>)
        /\ running_' = IF quits THEN FALSE ELSE running_
        /\ obs' = [obs EXCEPT !.quitCalled = @ \/ quits]
        /\ trail' = [trail EXCEPT !.steps = @ + 1]
        /\ UNCHANGED <<clock, inputVars, hist, purged, pc, lagging_, eventQueue, auxVars>>

\* The fixed-update loop has ended: the lag check and the counter reset.
LagCheck ==
    /\ pc = "fixed"
    /\ ~FixedUpdateDue(loc.accumulatedTime, loc.fixedTimeStep,
                       loc.accumulatedUpdates, loc.maxUpdatesPerFrame)
    /\ IF StillBehind(loc.accumulatedTime, loc.fixedTimeStep)
         THEN LET warn == LagWarnDue(loc.lastLagWarnTime, loc.now)
              IN /\ loc' = [loc EXCEPT
                        !.accumulatedTime = Fmod(loc.accumulatedTime, loc.fixedTimeStep),
                        !.lastLagWarnTime = IF warn THEN loc.now ELSE @,
                        !.accumulatedUpdates = 0]
                 /\ lagging_' = TRUE
                 /\ obs' = [obs EXCEPT !.dropFrom = loc.accumulatedTime,
                                       !.warned = warn]
                 /\ trail' = [trail EXCEPT
                               !.warnCount = IF warn /\ @ < 2 THEN @ + 1 ELSE @,
                               !.warnLast = IF warn THEN loc.now ELSE @,
                               !.warnPrev = IF warn THEN trail.warnLast ELSE @,
                               !.dropped = @ + WholeSteps(loc.accumulatedTime,
                                                          loc.fixedTimeStep)]
         ELSE /\ loc' = [loc EXCEPT !.lastLagWarnTime = loc.now,
                                    !.accumulatedUpdates = 0]
              /\ lagging_' = FALSE
              /\ obs' = obs
              /\ trail' = trail
    /\ pc' = "update"
    /\ UNCHANGED <<clock, inputVars, hist, purged, running_, eventQueue, calls, auxVars>>

\* UpdateStep gone wrong: a quit() in the callback leaves the loop at once.
UpdateStepLeavesOnQuit ==
    \E quits \in BOOLEAN :
        /\ pc = "update"
        /\ calls' = Append(calls, <<"update", loc.frameDelta>>)
        /\ running_' = IF quits THEN FALSE ELSE running_
        /\ pc' = IF quits THEN "returned" ELSE "render"
        /\ obs' = [obs EXCEPT !.quitCalled = @ \/ quits]
        /\ UNCHANGED <<clock, inputVars, hist, purged, lagging_, loc, eventQueue, trail, auxVars>>

\* update(frameDelta); the callback may call quit().
UpdateStep ==
    \E quits \in BOOLEAN :
        /\ pc = "update"
        /\ calls' = Append(calls, <<"update", loc.frameDelta>>)
        /\ running_' = IF quits THEN FALSE ELSE running_
        /\ pc' = "render"
        /\ obs' = [obs EXCEPT !.quitCalled = @ \/ quits]
        /\ UNCHANGED <<clock, inputVars, hist, purged, lagging_, loc, eventQueue, trail, auxVars>>

\* render(static_cast<float>(accumulatedTime / fixedTimeStep)); the
\* callback may call quit().
RenderStep ==
    \E quits \in BOOLEAN :
        /\ pc = "render"
        /\ calls' = Append(calls, <<"render",
                                    InterpolationFactor(loc.accumulatedTime,
                                                        loc.fixedTimeStep)>>)
        /\ running_' = IF quits THEN FALSE ELSE running_
        /\ pc' = "delay"
        /\ obs' = [obs EXCEPT !.quitCalled = @ \/ quits]
        /\ UNCHANGED <<clock, inputVars, hist, purged, lagging_, loc, eventQueue, trail, auxVars>>

\* SDL_Delay(1) returns.  The time it has taken is the counter's to tell
\* (RunClock), and events are queued meanwhile (Post).
Delay ==
    /\ pc = "delay"
    /\ pc' = "test"
    /\ UNCHANGED <<clock, inputVars, hist, purged, running_, lagging_, loc, eventQueue,
                   calls, obs, trail, auxVars>>

\* The loop test while (running_): the next iteration, or run() returns.
LoopTest ==
    /\ pc = "test"
    /\ pc' = IF running_ THEN "frame" ELSE "returned"
    /\ trail' = [trail EXCEPT !.stopped = @ \/ ~running_]
    /\ UNCHANGED <<clock, inputVars, hist, purged, running_, lagging_, loc, eventQueue,
                   calls, obs, auxVars>>

NextRun ==
    \/ Run \/ RunClock \/ PostEvent \/ BeginFrame
    \/ PollNone \/ PollQuit \/ PollInput
    \/ InputUpdate \/ FixedStep \/ LagCheck \/ UpdateStep \/ RenderStep
    \/ Delay \/ LoopTest

Spec == Init /\ [][NextRun]_vars

\* The platform queues a press or a release of a key while the loop runs.
PostKey ==
    \E e \in {KeyDown(k, FALSE) : k \in Keys} \cup {KeyUp(k) : k \in Keys} : Post(e)

\* The main loop while the platform delivers key events.
NextKeys ==
    \/ Run \/ AdvanceClock \/ PostKey \/ BeginFrame \/ PollNone \/ PollInput
    \/ InputUpdate \/ FixedStep \/ LagCheck \/ UpdateStep \/ RenderStep
    \/ Delay \/ LoopTest

SpecKeys == Init /\ [][NextKeys]_vars

\* The events of the pumping scenario: a quit event, a window event and one
\* event of each kind the InputManager is handed.
LoopEvents ==
    {QuitEvent, WindowEvent}
    \cup {KeyDown(k, FALSE) : k \in Keys}
    \cup {MouseButtonDown(b) : b \in MouseButtons}
    \cup {GamepadButtonDown(b, j) : b \in GamepadButtons, j \in JoystickIds}
    \cup {GamepadAxisMotion(a, j, 513) : a \in GamepadAxes, j \in JoystickIds}
    \cup {GamepadRemoved(j) : j \in JoystickIds}

PostLoopEvent == \E e \in LoopEvents : PostWithin(e, MaxLoopPosted)

\* run(FixedUpdateFrequency{4}, MaxFixedUpdatesPerTick{1}, 1.0)
RunPumping == RunWith("idle", 4, 1, SecondUnits)

\* The main loop while the platform delivers events of every kind.  The
\* iterations are followed within one tick of the counter, where no fixed
\* update is due.
NextEvents ==
    \/ RunPumping \/ PostLoopEvent \/ BeginFrame
    \/ PollNone \/ PollQuit \/ PollInput \/ PollOther
    \/ InputUpdate \/ LagCheck \/ UpdateStep \/ RenderStep
    \/ Delay \/ LoopTest

SpecEvents == Init /\ [][NextEvents]_vars

\* run() with a maxFrameTime that is, or is just below, a whole number of
\* steps.
RunNearStep ==
    \E frequency \in Frequencies, maxUpdates \in MaxUpdatesValues,
       maxFrameTime \in MaxFrameTimes \cup NearStepFrameTimes :
        RunWith("idle", frequency, maxUpdates, maxFrameTime)

\* The main loop without events, with frame deltas that the clamp cuts just
\* below a whole number of steps.
NextFactor ==
    \/ RunNearStep \/ RunClock \/ BeginFrame \/ PollNone \/ InputUpdate
    \/ FixedStep \/ LagCheck \/ UpdateStep \/ RenderStep
    \/ Delay \/ LoopTest

SpecFactor == Init /\ [][NextFactor]_vars

\* The main loop on an instance whose run() may be called again.
NextRestart == NextRun \/ RunAgain

SpecRestart == Init /\ [][NextRestart]_vars

\* The main loop while the platform delivers no event, followed for longer.
LagClock ==
    /\ clock + 1 <= MaxLagClock
    /\ clock' = clock + 1
    /\ UNCHANGED <<inputVars, hist, purged, runVars, auxVars>>

NextLag ==
    \/ Run \/ LagClock \/ BeginFrame \/ PollNone \/ InputUpdate
    \/ FixedStep \/ LagCheck \/ UpdateStep \/ RenderStep
    \/ Delay \/ LoopTest

SpecLag == Init /\ [][NextLag]_vars

\* The main loop after a run() call with any arguments.
NextConfig ==
    \/ RunConfig \/ RunClock \/ BeginFrame \/ PollNone \/ InputUpdate
    \/ FixedStep \/ LagCheck \/ UpdateStep \/ RenderStep
    \/ Delay \/ LoopTest

SpecConfig == Init /\ [][NextConfig]_vars

\* The state stack under any sequence of calls.
NextStates == Forward \/ PushState \/ PopState \/ Clear \/ ReplaceTopState

SpecStates == Init /\ [][NextStates]_vars

\* A Clock under any sequence of calls while time passes.
NextClock == AdvanceClock \/ ClockStart \/ ClockStop \/ ClockRestart \/ ClockReset

SpecClock == Init /\ [][NextClock]_vars

\* SdlGame's loop while time passes.
NextGame ==
    \/ GamePush \/ GameRun \/ GameRunAgain \/ GameClock \/ GameBeginFrame
    \/ GameFixedStep \/ GameLagCheck \/ GameUpdate \/ GameRender \/ GameDelay
    \/ GameLoopTest \/ GameDestroyed

SpecGame == Init /\ [][NextGame]_vars

\* main(): init(), then run() on the instance.
MainRun == InitSucceeded /\ Run

NextMain ==
    \/ MainInit \/ MainPush \/ MoveRuntime \/ MovedFromDestroyed \/ MainRun
    \/ RunClock \/ BeginFrame \/ PollNone \/ InputUpdate
    \/ FixedStep \/ LagCheck \/ UpdateStep \/ RenderStep
    \/ Delay \/ LoopTest \/ MainReturn

SpecMain == Init /\ [][NextMain]_vars

NextInput == AdvanceClock \/ HandleEvent \/ Update \/ SetHoldThreshold

SpecInput == Init /\ [][NextInput]_vars

\* The InputManager with the hold threshold it starts with.
NextHold == AdvanceClock \/ HandleEvent \/ Update

SpecHold == Init /\ [][NextHold]_vars

\* The InputManager with action bindings.
NextActions ==
    \/ HoldClock \/ ActionEvent \/ Update
    \/ BindActionKey \/ BindActionMouseButton \/ BindActionGamepadButton

SpecActions == Init /\ [][NextActions]_vars

\* The InputManager with two gamepads.
NextDevices == HoldClock \/ DeviceEvent \/ Update

SpecDevices == Init /\ [][NextDevices]_vars

\* Removal next to everything else the InputManager holds: the events of
\* two gamepads, a press of a key and of a mouse button, a binding and the
\* hold threshold.
RemovalEvents ==
    {e \in DeviceEvents : e.type = "GAMEPAD_AXIS_MOTION" => e.value = 513}
    \cup {KeyDown(k, FALSE) : k \in Keys}
    \cup {MouseButtonDown(b) : b \in MouseButtons}

RemovalEvent == \E e \in RemovalEvents : DeviceEventOf(e)

NextRemoval == RemovalEvent \/ Update \/ BindActionKey \/ SetHoldThreshold

SpecRemoval == Init /\ [][NextRemoval]_vars

\* Event pumping between updates: presses and releases of a key and of the
\* buttons of two gamepads, axis motion of one of them and removal of both,
\* with key bindings and passing time.
PumpEvents ==
    {e \in DeviceEvents :
        e.type = "GAMEPAD_AXIS_MOTION" => e.value = 513 /\ e.which = 1}
    \cup {e \in ActionEvents : e.type \in {"KEY_DOWN", "KEY_UP"}}

PumpEvent == \E e \in PumpEvents : ActionEventOf(e)

NextPump == HoldClock \/ PumpEvent \/ Update \/ BindActionKey

SpecPump == Init /\ [][NextPump]_vars

\* The queries: gamepad events, updates and the getters.
NextQueries ==
    \/ DeviceEvent \/ Update \/ QueryKey \/ QueryMouse \/ QueryGamepad \/ QueryAxis

SpecQueries == Init /\ [][NextQueries]_vars

\* The axes: axis motion, removal and the axis getters.
NextAxes == AxisEvent \/ QueryAxis

SpecAxes == Init /\ [][NextAxes]_vars

\* ===================================================== the main loop claims
\* The lag check of the current iteration has run.
PastLagCheck ==
    \/ pc \in {"update", "render", "delay", "test"}
    \/ pc \in {"frame", "returned"} /\ calls # << >>

FixedCalls == {i \in DOMAIN calls : calls[i][1] = "fixedUpdate"}

RenderCalls == {i \in DOMAIN calls : calls[i][1] = "render"}

UpdateCalls == {i \in DOMAIN calls : calls[i][1] = "update"}

\* C1 as stated: once an iteration is past its lag check, 0 <=
\* accumulatedTime < fixedTimeStep, and the interpolation factor render
\* receives is in [0, 1).
C1_AccumulatorBelowOneStep ==
    /\ PastLagCheck =>
          0 <= loc.accumulatedTime /\ loc.accumulatedTime < loc.fixedTimeStep
    /\ \A i \in RenderCalls : 0 <= calls[i][2] /\ calls[i][2] < FactorUnits

\* 2^25: a quotient that is within 2^-25 of 1 is a float only as 1.0f
HalfUlpBelowOne == 2 ^ 25

\* C1, amended: once an iteration is past its lag check, 0 <=
\* accumulatedTime < fixedTimeStep, so the quotient accumulatedTime /
\* fixedTimeStep is in [0, 1); the float render receives is in [0, 1], and
\* it is 1.0f exactly when the quotient is within 2^-25 of 1.
C1_FactorAtMostOne ==
    /\ PastLagCheck =>
          0 <= loc.accumulatedTime /\ loc.accumulatedTime < loc.fixedTimeStep
    /\ \A i \in RenderCalls :
          /\ 0 <= calls[i][2] /\ calls[i][2] <= FactorUnits
          /\ calls[i][2] = FactorUnits <=>
                loc.fixedTimeStep - loc.accumulatedTime
                    <= loc.fixedTimeStep \div HalfUlpBelowOne

\* C1 witness: in an iteration that dropped steps and kept a remainder just
\* below one step, render has received 1.0f.
C1_Witness ==
    /\ pc \in {"delay", "test", "frame", "returned"}
    /\ obs.dropFrom >= 0
    /\ loc.accumulatedTime < loc.fixedTimeStep
    /\ \E i \in RenderCalls : calls[i][2] = FactorUnits

\* C2: an iteration invokes fixedUpdate min(floor(A / fixedTimeStep),
\* maxFixedUpdatesPerTick) times, A being the accumulator after the frame
\* delta was added; never more than the cap; each call receives fixedTimeStep.
C2_FixedUpdateCount ==
    /\ Cardinality(FixedCalls) <= loc.maxUpdatesPerFrame
    /\ \A i \in FixedCalls : calls[i][2] = loc.fixedTimeStep
    /\ PastLagCheck =>
          Cardinality(FixedCalls) =
              (IF obs.accIn \div loc.fixedTimeStep < loc.maxUpdatesPerFrame
                 THEN obs.accIn \div loc.fixedTimeStep
                 ELSE loc.maxUpdatesPerFrame)

\* C2 witness: an iteration that owed more than two steps has run exactly its
\* cap of two, after an earlier iteration that had run fixed updates too.
C2_Witness ==
    /\ PastLagCheck
    /\ loc.maxUpdatesPerFrame = 2
    /\ obs.accIn \div loc.fixedTimeStep > 2
    /\ Cardinality(FixedCalls) = 2
    /\ obs.lastTimeBefore > 0

\* C3: when the cap is hit, the accumulator after the iteration is the
\* accumulator before the drop modulo fixedTimeStep: what is discarded is a
\* whole positive multiple of fixedTimeStep and the remainder is kept.
C3_DropKeepsPhase ==
    (PastLagCheck /\ obs.accIn - Cardinality(FixedCalls) * loc.fixedTimeStep >= loc.fixedTimeStep)
    => LET before == obs.accIn - Cardinality(FixedCalls) * loc.fixedTimeStep
           after == loc.accumulatedTime
       IN /\ obs.dropFrom = before
          /\ 0 <= after /\ after < loc.fixedTimeStep
          /\ before - after >= loc.fixedTimeStep
          /\ (before - after) % loc.fixedTimeStep = 0

\* C3 witness: steps were dropped and a non-zero remainder was kept.
C3_Witness ==
    /\ pc = "update"
    /\ obs.dropFrom >= loc.fixedTimeStep
    /\ loc.accumulatedTime > 0

\* C4: after an iteration isLagging() is true exactly if the accumulator still
\* held a full step when the bounded catch-up loop stopped; an iteration that
\* drains the accumulator within the cap sets it back to false.
C4_LaggingIffStillBehind ==
    PastLagCheck =>
        (lagging_ <=>
            obs.accIn - Cardinality(FixedCalls) * loc.fixedTimeStep >= loc.fixedTimeStep)

\* C4 witness: an iteration that began lagging has drained the accumulator
\* and cleared the flag.
C4_Witness ==
    /\ pc = "update"
    /\ obs.laggingBefore
    /\ ~lagging_
    /\ Cardinality(FixedCalls) > 0

\* C5: the time an iteration adds to the accumulator is min(now - lastTime,
\* maxFrameTime); update() receives that same value; lastTime becomes now.
C5_ClampedFrameDelta ==
    pc \in {"events", "input", "fixed", "update", "render", "delay", "test"} =>
        LET wall == ((loc.now - obs.lastTimeBefore) * SecondUnits) \div PerformanceFrequency
            clamped == IF wall <= loc.maxFrameDeltaTime THEN wall
                       ELSE loc.maxFrameDeltaTime
        IN /\ obs.accIn - obs.accBefore = clamped
           /\ loc.frameDelta = clamped
           /\ loc.lastTime = loc.now
           /\ \A i \in UpdateCalls : calls[i][2] = clamped
           /\ pc \in {"render", "delay", "test"} => Cardinality(UpdateCalls) = 1

\* C5 witness: update() has received a delta that the clamp shortened.
C5_Witness ==
    /\ pc = "render"
    /\ ((loc.now - obs.lastTimeBefore) * SecondUnits) \div PerformanceFrequency
          > loc.maxFrameDeltaTime
    /\ \E i \in UpdateCalls : calls[i][2] = loc.maxFrameDeltaTime

\* The callbacks and calls of an iteration by the step they belong to.
StepOf(call) ==
    CASE call[1] \in {"InputManager::handleEvent", "StateManager::handleEvent"} -> 1
      [] call[1] = "InputManager::update" -> 2
      [] call[1] = "fixedUpdate" -> 3
      [] call[1] = "update" -> 4
      [] call[1] = "render" -> 5

CallsOfStep(n) == {i \in DOMAIN calls : StepOf(calls[i]) = n}

\* The current iteration has run to its end: the loop test has been made.
IterationDone == pc \in {"frame", "returned"} /\ calls # << >>

\* the positions inside an iteration of the loop
InIteration == pc \in {"events", "input", "fixed", "update", "render", "delay", "test"}

\* C11: the calls of an iteration come in the order events, InputManager
\* update, fixed updates, update, render; the fixed updates, the update and
\* the render come after exactly one InputManager update, and a finished
\* iteration has made exactly one InputManager update, update and render.
C11_StepOrder ==
    /\ \A i \in 1..(Len(calls) - 1) : StepOf(calls[i]) <= StepOf(calls[i + 1])
    /\ pc = "events" => \A i \in DOMAIN calls : StepOf(calls[i]) = 1
    /\ pc = "input" => \A i \in DOMAIN calls : StepOf(calls[i]) = 1
    /\ pc = "fixed" => Cardinality(CallsOfStep(2)) = 1
                       /\ CallsOfStep(4) \cup CallsOfStep(5) = {}
    /\ pc = "update" => Cardinality(CallsOfStep(2)) = 1
                        /\ CallsOfStep(4) \cup CallsOfStep(5) = {}
    /\ pc = "render" => Cardinality(CallsOfStep(2)) = 1
                        /\ Cardinality(CallsOfStep(4)) = 1 /\ CallsOfStep(5) = {}
    /\ (pc \in {"delay", "test"} \/ IterationDone) =>
                        Cardinality(CallsOfStep(2)) = 1
                        /\ Cardinality(CallsOfStep(4)) = 1
                        /\ Cardinality(CallsOfStep(5)) = 1

\* C11 witness: a finished iteration that handled an event and ran two fixed
\* updates.
C11_Witness ==
    /\ IterationDone
    /\ CallsOfStep(1) # {}
    /\ Cardinality(CallsOfStep(3)) = 2

\* C12 as stated: an iteration that polled a quit event runs no input update,
\* no fixedUpdate, no update and no render.
C12_QuitSkipsRestOfIteration ==
    obs.quitPolled => \A i \in DOMAIN calls : StepOf(calls[i]) = 1

\* The calls handleEvents makes for the events of queue q, in order: it stops
\* at the first quit event.
RECURSIVE Forwarded(_)
Forwarded(q) ==
    IF q = << >> \/ Head(q).type = "QUIT" THEN << >>
    ELSE IF Head(q).type \in InputEventTypes
      THEN << <<"InputManager::handleEvent", Head(q)>>,
              <<"StateManager::handleEvent", Head(q)>> >> \o Forwarded(Tail(q))
      ELSE << <<"StateManager::handleEvent", Head(q)>> >> \o Forwarded(Tail(q))

HandleCalls == SelectSeq(calls, LAMBDA c : StepOf(c) = 1)

\* sequence p is the beginning of sequence q
IsPrefix(p, q) == Len(p) <= Len(q) /\ SubSeq(q, 1, Len(p)) = p

\* the events handleEvents has polled in this iteration before event number n
PolledBefore(n) == SubSeq(obs.polled, 1, n - 1)

\* C13: once a quit event is polled, running_ is false and the pumping is
\* over: the quit event is the last event polled in the iteration, it was
\* forwarded to nobody, the handleEvent calls of the iteration are those for
\* the events polled before it, and the events that were queued behind it
\* stay at the front of the queue, whatever else is queued meanwhile.
C13_QuitEndsPumping ==
    obs.quitPolled =>
        /\ ~running_
        /\ pc \in {"input", "fixed", "update", "render", "delay", "test", "returned"}
        /\ \A i \in DOMAIN calls : StepOf(calls[i]) = 1 => calls[i][2].type # "QUIT"
        /\ obs.polled[Len(obs.polled)].type = "QUIT"
        /\ \A i \in 1..(Len(obs.polled) - 1) : obs.polled[i].type # "QUIT"
        /\ IsPrefix(obs.behind, eventQueue)
        /\ HandleCalls = Forwarded(PolledBefore(Len(obs.polled)))

\* C13 witness: run() has returned after a quit event that was polled behind
\* a key event, with a gamepad event queued behind it and a mouse event
\* queued after it was polled.
C13_Witness ==
    /\ pc = "returned"
    /\ obs.quitPolled
    /\ Len(obs.polled) = 2
    /\ obs.polled[1].type = "KEY_DOWN"
    /\ Len(obs.behind) = 1
    /\ obs.behind[1].type = "GAMEPAD_BUTTON_DOWN"
    /\ Len(eventQueue) = 2
    /\ eventQueue[2].type = "MOUSE_BUTTON_DOWN"

\* C14: when a callback calls quit() during an iteration, running_ is false
\* from then on, the iteration still runs every fixed update it owes, its
\* update and its render, and run() then returns.
C14_QuitIsCooperative ==
    /\ obs.quitCalled => ~running_
    /\ (IterationDone /\ obs.quitCalled) => pc = "returned"
    /\ ((pc \in {"delay", "test"} \/ IterationDone) /\ obs.quitCalled) =>
          /\ Cardinality(CallsOfStep(4)) = 1
          /\ Cardinality(CallsOfStep(5)) = 1
          /\ Cardinality(FixedCalls) =
                (IF obs.accIn \div loc.fixedTimeStep < loc.maxUpdatesPerFrame
                   THEN obs.accIn \div loc.fixedTimeStep
                   ELSE loc.maxUpdatesPerFrame)

\* C14 witness: run() has returned after an iteration in which a callback
\* called quit(), no quit event was polled, and two fixed updates ran.
C14_Witness ==
    /\ pc = "returned"
    /\ obs.quitCalled
    /\ ~obs.quitPolled
    /\ Cardinality(FixedCalls) = 2

\* C15 as stated: once a run() call has returned, no loop iteration is
\* executed on the instance any more.
C15_StoppedIsTerminal ==
    trail.stopped => ~InIteration

\* C16: handleEvents forwards every non-quit event it polls to the
\* StateManager exactly once and in poll order, and every input event to the
\* InputManager exactly once, just before the StateManager gets it.
C16_EventsForwardedInOrder ==
    (InIteration \/ IterationDone) =>
        LET handled == HandleCalls
        IN /\ handled = Forwarded(obs.polled)
           /\ \A n \in DOMAIN obs.polled :
                 obs.polled[n].type # "QUIT" =>
                    LET before == Len(Forwarded(PolledBefore(n)))
                        upTo == Len(Forwarded(PolledBefore(n + 1)))
                        mine == {i \in DOMAIN handled : i > before /\ i <= upTo}
                        toInput == {i \in mine : handled[i][1] = "InputManager::handleEvent"}
                        toStates == {i \in mine : handled[i][1] = "StateManager::handleEvent"}
                    IN /\ \A i \in mine : handled[i][2] = obs.polled[n]
                       /\ Cardinality(toStates) = 1
                       /\ Cardinality(toInput) =
                             (IF obs.polled[n].type \in InputEventTypes THEN 1 ELSE 0)
                       /\ \A i \in toInput, j \in toStates : i < j

\* C16 witness: one call of handleEvents has polled a gamepad-button event,
\* a gamepad-axis event and a gamepad-removed event, more events than the
\* queue holds at once, so that one of them was queued while the pumping was
\* under way; an earlier iteration polled a key event and a mouse-button
\* event.
C16_Witness ==
    /\ pc = "input"
    /\ Len(obs.polled) = 3
    /\ obs.polled[1].type = "GAMEPAD_BUTTON_DOWN"
    /\ obs.polled[2].type = "GAMEPAD_AXIS_MOTION"
    /\ obs.polled[3].type = "GAMEPAD_REMOVED"
    /\ Len(HandleCalls) = 6
    /\ DOMAIN keyboardButtons_ # {}
    /\ DOMAIN mouseButtons_ # {}

\* C17: two lag warnings of a run() call are more than one second apart.
C17_LagWarningsOneSecondApart ==
    trail.warnCount >= 2 => Elapsed(trail.warnPrev, trail.warnLast) > OneSecond

\* C17 witness: the loop has logged a second lag warning, in an iteration
\* that followed one without lag.
C17_Witness ==
    /\ trail.warnCount = 2
    /\ obs.warned
    /\ ~obs.laggingBefore

\* ================================================= the InputManager claims
\* The tracked records of the three device maps, under one name each.
UnitsOf(kb, mb, gp) ==
    {<<"key", k>> : k \in DOMAIN kb} \cup {<<"mouse", b>> : b \in DOMAIN mb}
    \cup UNION {{<<"pad", j, b>> : b \in DOMAIN gp[j]} : j \in DOMAIN gp}

RecordOf(kb, mb, gp, u) ==
    CASE u[1] = "key" -> kb[u[2]]
      [] u[1] = "mouse" -> mb[u[2]]
      [] u[1] = "pad" -> gp[u[2]][u[3]]

Tracked == UnitsOf(keyboardButtons_, mouseButtons_, gamepadButtons_)

Rec(u) == RecordOf(keyboardButtons_, mouseButtons_, gamepadButtons_, u)

\* The unit an event is about.
UnitOfEvent(e) ==
    CASE e.type \in {"KEY_DOWN", "KEY_UP"} -> <<"key", e.key>>
      [] e.type \in {"MOUSE_BUTTON_DOWN", "MOUSE_BUTTON_UP"} -> <<"mouse", e.button>>
      [] e.type \in {"GAMEPAD_BUTTON_DOWN", "GAMEPAD_BUTTON_UP"} ->
            <<"pad", e.which, e.button>>
      [] OTHER -> <<"none">>

PressTypes == {"KEY_DOWN", "MOUSE_BUTTON_DOWN", "GAMEPAD_BUTTON_DOWN"}

ReleaseTypes == {"KEY_UP", "MOUSE_BUTTON_UP", "GAMEPAD_BUTTON_UP"}

\* The state the claim's table gives a record, from its flags before the
\* update, the time since its press and the hold threshold, both in seconds.
TableState(isDown, wasDown, sincePress, h) ==
    CASE isDown /\ sincePress >= h -> "Held"
      [] isDown /\ sincePress < h -> "Down"
      [] ~isDown /\ wasDown /\ sincePress < h -> "Clicked"
      [] ~isDown /\ wasDown /\ sincePress >= h -> "Released"
      [] OTHER -> "Up"

\* C6: update() at time now gives every tracked key, mouse button and gamepad
\* button record the state of the table (Held / Down / Clicked / Released /
\* Up), the boundary now - pressTime = holdThreshold being Held and Released.
C6_UpdateFollowsTable ==
    [][Update =>
        /\ UnitsOf(keyboardButtons_', mouseButtons_', gamepadButtons_') = Tracked
        /\ \A u \in Tracked :
              RecordOf(keyboardButtons_', mouseButtons_', gamepadButtons_', u).state
                = TableState(Rec(u).isDown, Rec(u).wasDown,
                             TicksToSeconds(clock - Rec(u).pressTime), holdThreshold_)
      ]_vars

\* C6 witness: one update() at exactly holdThreshold after two presses has
\* reported a key Held and a gamepad button Released, and a mouse button
\* pressed later Clicked.
C6_Witness ==
    /\ \E k \in DOMAIN keyboardButtons_ :
          /\ keyboardButtons_[k].state = "Held"
          /\ TicksToSeconds(clock - keyboardButtons_[k].pressTime) = holdThreshold_
    /\ \E j \in DOMAIN gamepadButtons_ : \E b \in DOMAIN gamepadButtons_[j] :
          /\ gamepadButtons_[j][b].state = "Released"
          /\ TicksToSeconds(clock - gamepadButtons_[j][b].pressTime) = holdThreshold_
    /\ \E m \in DOMAIN mouseButtons_ : mouseButtons_[m].state = "Clicked"

\* The key and gamepad button records whose release an update() is about to
\* report: seen down by the last update(), released since, not pressed again.
ReleaseToReport(u) ==
    /\ u \in Tracked
    /\ Rec(u).wasDown
    /\ ~Rec(u).isDown
    /\ ~hist[u].pressed
    /\ hist[u].released # "no"

\* C7 as stated: the update() after a release reports Clicked if the release
\* event came less than holdThreshold after the press and Released if it came
\* at or after it, whenever that update() runs.
C7_ReleaseTimeDecides ==
    [][Update =>
        \A u \in HistUnits : ReleaseToReport(u) =>
            RecordOf(keyboardButtons_', mouseButtons_', gamepadButtons_', u).state
              = (IF hist[u].released = "early" THEN "Clicked" ELSE "Released")
      ]_vars

\* C7 amended: the update() after a release reports Clicked exactly when that
\* update() itself runs less than holdThreshold after the press, and Released
\* otherwise.
C7_UpdateTimeDecides ==
    [][Update =>
        \A u \in HistUnits : ReleaseToReport(u) =>
            RecordOf(keyboardButtons_', mouseButtons_', gamepadButtons_', u).state
              = (IF TicksToSeconds(clock - Rec(u).pressTime) < holdThreshold_
                   THEN "Clicked" ELSE "Released")
      ]_vars

\* C7 witness: a release that came before the threshold has been reported
\* Released by an update() that ran after it.
C7_Witness ==
    \E u \in HistUnits :
        /\ u \in Tracked
        /\ Rec(u).state = "Released"
        /\ hist[u].released = "early"
        /\ ~hist[u].pressed

\* C8: a press event for a unit that is already down leaves its pressTime
\* unchanged.
C8_RepeatedPressKeepsPressTime ==
    [][\A e \in ButtonEvents :
          (/\ e.type \in PressTypes
           /\ HandleEventOf(e)
           /\ UnitOfEvent(e) \in Tracked
           /\ Rec(UnitOfEvent(e)).isDown)
          => RecordOf(keyboardButtons_', mouseButtons_', gamepadButtons_',
                      UnitOfEvent(e)).pressTime = Rec(UnitOfEvent(e)).pressTime
      ]_vars

\* C9: a key or gamepad button whose press event and release event were both
\* handled since the last update() is reported Clicked by the next update().
C9_PressAndReleaseInOneCycleIsClicked ==
    [][Update =>
        \A u \in HistUnits :
            (u \in Tracked /\ hist[u].pressed /\ hist[u].released # "no" /\ ~Rec(u).isDown)
            => RecordOf(keyboardButtons_', mouseButtons_', gamepadButtons_', u).state
                 = "Clicked"
      ]_vars

\* C10: update() is the only operation that writes wasDown and state; it sets
\* wasDown to isDown and changes neither isDown nor pressTime.  Any other
\* step leaves wasDown and state of every record alone, and writes pressTime
\* only together with isDown = true (a press): a step that leaves a button up
\* (a release) keeps its pressTime.  A record an event creates starts with
\* wasDown false and state Up.
C10_FrameConditions ==
    [][LET after(u) == RecordOf(keyboardButtons_', mouseButtons_', gamepadButtons_', u)
           Tracked2 == UnitsOf(keyboardButtons_', mouseButtons_', gamepadButtons_')
       IN IF Update
            THEN
               /\ Tracked2 = Tracked
               /\ \A u \in Tracked :
                     /\ after(u).wasDown = Rec(u).isDown
                     /\ after(u).isDown = Rec(u).isDown
                     /\ after(u).pressTime = Rec(u).pressTime
            ELSE
               /\ \A u \in Tracked \cap Tracked2 :
                     /\ after(u).wasDown = Rec(u).wasDown
                     /\ after(u).state = Rec(u).state
                     /\ after(u).pressTime # Rec(u).pressTime => after(u).isDown
               /\ \A u \in Tracked2 \ Tracked :
                     /\ ~after(u).wasDown
                     /\ after(u).state = "Up"
                     /\ after(u).pressTime # DefaultButtonData.pressTime => after(u).isDown
      ]_vars

\* C10 witness: a release event has been handled for a button pressed after
\* time 0 that an update() had reported Down: the record still shows Down,
\* wasDown and its press time.
C10_Witness ==
    \E u \in Tracked :
        /\ ~Rec(u).isDown
        /\ Rec(u).wasDown
        /\ Rec(u).state = "Down"
        /\ Rec(u).pressTime > 0

\* ===================================================== the action claims
\* The state stored for the unit a binding names, Up if there is no record.
StoredState(b) ==
    CASE b.kind = "key" ->
           IF b.key \in DOMAIN keyboardButtons_
             THEN keyboardButtons_[b.key].state ELSE "Up"
      [] b.kind = "mouse" ->
           IF b.button \in DOMAIN mouseButtons_
             THEN mouseButtons_[b.button].state ELSE "Up"
      [] b.kind = "gamepad" ->
           IF <<"pad", b.joystickId, b.button>> \in Tracked
             THEN gamepadButtons_[b.joystickId][b.button].state ELSE "Up"

\* The states that answer a query kind.
StatesOf(q) ==
    CASE q = "Clicked" -> {"Clicked"}
      [] q = "Held" -> {"Held"}
      [] q = "Down" -> {"Down", "Held"}
      [] q = "Released" -> {"Released"}

isAction(actionName, q) ==
    CASE q = "Clicked" -> isActionClicked(actionName)
      [] q = "Held" -> isActionHeld(actionName)
      [] q = "Down" -> isActionDown(actionName)
      [] q = "Released" -> isActionReleased(actionName)

\* C18: isActionClicked / Held / Down / Released of a name is true exactly if
\* one of the bindings stored for the name has its unit in a state that
\* answers the query; a name without bindings gets false for all four.
C18_ActionIsOrOfBindings ==
    \A name \in QueryNames, q \in QueryKinds :
        isAction(name, q) <=>
            /\ name \in DOMAIN actions_
            /\ \E i \in DOMAIN actions_[name] :
                  StoredState(actions_[name][i]) \in StatesOf(q)

\* C18 witness: an action is Down by its second binding only, a gamepad
\* button, while its first binding, a key, has just been released.
C18_Witness ==
    /\ "jump" \in DOMAIN actions_
    /\ Len(actions_["jump"]) = 2
    /\ actions_["jump"][1].kind = "key"
    /\ actions_["jump"][2].kind = "gamepad"
    /\ StoredState(actions_["jump"][1]) = "Released"
    /\ StoredState(actions_["jump"][2]) = "Held"
    /\ isActionDown("jump") /\ isActionReleased("jump")
    /\ ~isActionDown("fire")

\* C19 as stated: an action with a gamepad binding of joystick id 0 answers a
\* query with true when the button is in a state answering it on any joystick
\* id that has a record for the button.
C19_JoystickZeroIsWildcard ==
    \A name \in DOMAIN actions_, q \in QueryKinds :
        \A i \in DOMAIN actions_[name] :
            (/\ actions_[name][i].kind = "gamepad"
             /\ actions_[name][i].joystickId = 0
             /\ \E j \in DOMAIN gamepadButtons_ :
                   /\ actions_[name][i].button \in DOMAIN gamepadButtons_[j]
                   /\ gamepadButtons_[j][actions_[name][i].button].state \in StatesOf(q))
            => isAction(name, q)

\* ===================================================== the device claims
\* C20: right after a gamepad-removed event for joystick id j is handled,
\* every button of j is Up for all four queries and every axis of j reads 0.
C20_RemovalPurges ==
    [][\A j \in DeviceJoystickIds :
          DeviceEventOf(GamepadRemoved(j)) =>
              /\ \A b \in GamepadButtons, q \in QueryKinds :
                    ~StateAnswers(getButtonStateGamepad(b, j), q)'
              /\ \A b \in GamepadButtons : getButtonStateGamepad(b, j)' = "Up"
              /\ \A a \in GamepadAxes : getAxisRaw(a, j)' = 0
      ]_vars

\* C20 witness: the removal of joystick 1 has erased a button record that was
\* down and a non-zero axis value, while joystick 2 keeps a held button and
\* its axis value.
C20_Witness ==
    /\ <<1, "button">> \in purged
    /\ <<1, "axis">> \in purged
    /\ getButtonStateGamepad(0, 1) = "Up"
    /\ getAxisRaw(0, 1) = 0
    /\ getButtonStateGamepad(0, 2) = "Held"
    /\ getAxisRaw(0, 2) = 32767

\* ====================================================== the query claims
QueryStep == QueryKey \/ QueryMouse \/ QueryGamepad \/ QueryAxis

\* C21: a query on an input unit that has no record (as every unit has for
\* which no event was ever handled) reports Up, so that isClicked, isHeld,
\* isDown and isReleased are all false, reports 0 from getAxisRaw and 0.0
\* from getAxisNormalized, and no query creates or changes a record: the
\* button maps and the axis map are the same before and after it.
C21_UnknownUnitIsUp ==
    [][QueryStep =>
        /\ UNCHANGED <<keyboardButtons_, mouseButtons_, gamepadButtons_, axes_>>
        /\ ~answer'.known =>
              /\ answer'.state = "Up"
              /\ \A q \in QueryKinds : ~StateAnswers(answer'.state, q)
              /\ answer'.raw = 0
              /\ answer'.normalized = 0]_vars

\* Witness: while records of a gamepad button and of an axis exist, the
\* latest query asked about a unit that no event is ever about.
C21_Witness ==
    /\ gamepadButtons_ # EmptyPads
    /\ axes_ # EmptyPads
    /\ ~answer.known
    /\ \/ answer.unit = <<"key", 97>>
       \/ answer.unit = <<"pad", 3, 0>>
       \/ answer.unit = <<"axis", 1, 1>>
\* r / d in units of 2^-30, rounded down, for 0 <= r <= d <= 2^15
QuotientUnits(r, d) == r * (NormUnits \div d) + (r * (NormUnits % d)) \div d

\* 2^-24, the distance of 1.0 to the float below it, in units of 2^-30
FloatUlp == NormUnits \div FloatPrecision

\* C22: after an axis-motion event with the raw value r, getAxisRaw reports
\* r and getAxisNormalized reports the float product of r and the scale:
\* r/32767 to within 2^-24 when r >= 0 and exactly r/32768 when r < 0.  The
\* result is within [-1, 1], 32767 gives 1.0, -32768 gives -1.0, 0 gives 0.0,
\* and over the axes tracked after the event the result is monotone in the
\* raw value.
C22_AxisNormalized ==
    [][\A a \in GamepadAxes, j \in DeviceJoystickIds, r \in AxisValues :
        DeviceEventOf(GamepadAxisMotion(a, j, r)) =>
            LET n == getAxisNormalized(a, j)'
            IN /\ getAxisRaw(a, j)' = r
               /\ r >= 0 =>
                     /\ n - QuotientUnits(r, SDL_JOYSTICK_AXIS_MAX) <= FloatUlp
                     /\ QuotientUnits(r, SDL_JOYSTICK_AXIS_MAX) - n <= FloatUlp
               /\ r < 0 => n = -QuotientUnits(-r, -SDL_JOYSTICK_AXIS_MIN)
               /\ -NormUnits <= n /\ n <= NormUnits
               /\ r = SDL_JOYSTICK_AXIS_MAX => n = NormUnits
               /\ r = SDL_JOYSTICK_AXIS_MIN => n = -NormUnits
               /\ r = 0 => n = 0
               /\ \A a2 \in GamepadAxes, j2 \in DeviceJoystickIds :
                     /\ getAxisRaw(a2, j2)' <= r => getAxisNormalized(a2, j2)' <= n
                     /\ getAxisRaw(a2, j2)' >= r => getAxisNormalized(a2, j2)' >= n]_vars

\* Witness: one joystick's axis is at its maximum, the other's at a value
\* whose product with the scale is not a float and was rounded, and the
\* latest query read that value.
C22_Witness ==
    /\ getAxisRaw(0, 2) = SDL_JOYSTICK_AXIS_MAX
    /\ getAxisRaw(0, 1) = 513
    /\ answer.unit = <<"axis", 1, 0>>
    /\ answer.raw = 513
    /\ answer.normalized = getAxisNormalized(0, 1)
    /\ answer.normalized # 513 * (INV_POS \div ScaleShift)
\* ============================================= the configuration claims
\* C23: a run() call given a zero frequency, a zero maxUpdates or a
\* maxFrameTime that is not positive executes no loop iteration: no event
\* pump, no fixedUpdate, update or render.
C23_InvalidConfigFailsFast == trail.invalid => ~InIteration /\ calls = << >>
\* a library call of init() has failed
InitCallFailed == \E i \in 1..Len(boot.made) : ~boot.made[i][2]

\* C24: when a library call of init() fails, init() returns false, window_
\* and renderer_ stay unset and the main loop is never entered; init()
\* returns true only when every call it made succeeded, the last of them
\* being the creation of window and renderer, and both pointers are set.
C24_InitFailureIsFatal ==
    /\ InitCallFailed =>
          /\ boot.result = "false"
          /\ ~boot.window_ /\ ~boot.renderer_
          /\ pc = "idle" /\ ~running_ /\ calls = << >>
    /\ boot.result = "true" =>
          /\ ~InitCallFailed
          /\ boot.made[1][1] = "SDL_Init"
          /\ boot.made[Len(boot.made)][1] = "SDL_CreateWindowAndRenderer"
          /\ boot.pc = "initialised" => boot.window_ /\ boot.renderer_
    /\ pc # "idle" => boot.result = "true"

\* Witness: SDL_Init and TTF_Init succeeded, the creation of the window
\* failed, init() returned false and main() has returned.
C24_Witness ==
    /\ boot.made = << <<"SDL_Init", TRUE>>, <<"TTF_Init", TRUE>>,
                     <<"SDL_CreateWindowAndRenderer", FALSE>> >>
    /\ boot.result = "false"
    /\ boot.pc = "exited"
    /\ pc = "idle"
\* ================================================ the StateManager claims
\* C25: handleEvent, fixedUpdate, update and render invoke the callback of
\* the same name on the state on top of the stack and on no other state,
\* invoke nothing when the stack is empty, and leave the stack as it is.
C25_TopOnly ==
    delivered.op \in Entries =>
        /\ states_ = delivered.before
        /\ delivered.callbacks =
             IF states_ = << >> THEN << >>
             ELSE << <<Back(states_), delivered.op, Len(states_)>> >>

\* Witness: a call was forwarded while two states were on the stack.
C25_Witness ==
    /\ delivered.op = "render"
    /\ Len(states_) = 2
    /\ delivered.callbacks = << <<states_[2], "render", 2>> >>

\* C26: pushState with a state that is not null calls its onEnter once;
\* when onEnter returns false the stack is the same as before the call and
\* pushState returns false; pushState returns true only with the state on
\* top of the stack and onEnter having returned true.
C26_FailedEnterRollsBack ==
    (delivered.op = "pushState" /\ delivered.state # NullState) =>
        /\ delivered.callbacks =
             << <<delivered.state, "onEnter", Len(delivered.before) + 1>> >>
        /\ delivered.onEnter = "false" =>
              ~delivered.returned /\ states_ = delivered.before
        /\ delivered.returned =>
              /\ delivered.onEnter = "true"
              /\ states_ = Append(delivered.before, delivered.state)

\* C27: popState on an empty stack returns false and changes nothing; on a
\* stack that is not empty it calls onExit on the top state once, while the
\* state is still on the stack, removes that state only, calls nothing on
\* the states below and returns true.
C27_PopState ==
    delivered.op = "popState" =>
        IF delivered.before = << >>
          THEN ~delivered.returned /\ states_ = << >> /\ delivered.callbacks = << >>
          ELSE /\ delivered.returned
               /\ delivered.callbacks =
                    << <<Back(delivered.before), "onExit", Len(delivered.before)>> >>
               /\ states_ = PopBack(delivered.before)

\* Witness: the top of a stack of two states was popped.
C27_Witness ==
    /\ delivered.op = "popState"
    /\ Len(delivered.before) = 2
    /\ Len(states_) = 1
    /\ delivered.returned

\* C28: replaceTopState with a state that is not null and whose onEnter
\* returns true returns true, makes the state the new top and leaves the
\* states below as they are; on a stack that is not empty the old top gets
\* onExit before the state gets onEnter and the depth is unchanged, on an
\* empty stack the state is pushed and the depth is 1.
C28_ReplaceTopState ==
    (/\ delivered.op = "replaceTopState"
     /\ delivered.state # NullState
     /\ delivered.onEnter = "true") =>
        /\ delivered.returned
        /\ Back(states_) = delivered.state
        /\ IF delivered.before = << >>
             THEN /\ states_ = <<delivered.state>>
                  /\ delivered.callbacks = << <<delivered.state, "onEnter", 1>> >>
             ELSE /\ Len(states_) = Len(delivered.before)
                  /\ PopBack(states_) = PopBack(delivered.before)
                  /\ delivered.callbacks =
                       << <<Back(delivered.before), "onExit", Len(delivered.before)>>,
                          <<delivered.state, "onEnter", Len(delivered.before)>> >>

\* Witness: the top of a stack of two states was replaced.
C28_Witness ==
    /\ delivered.op = "replaceTopState"
    /\ delivered.onEnter = "true"
    /\ Len(delivered.before) = 2
    /\ Len(states_) = 2
    /\ Back(states_) = delivered.state
    /\ Back(delivered.before) # delivered.state
\* ======================================================= the Clock claims
\* C29: start() on a running clock changes nothing: start_, end_ and
\* running_ are what they were, and elapsed() reports what it would report
\* without the call; start() on a stopped clock sets running_, and elapsed()
\* then reports the time since that call.
C29_StartIsIdempotent ==
    timer.last = "start" =>
        IF timer.was.running_
          THEN /\ timer.running_
               /\ timer.start_ = timer.was.start_
               /\ timer.end_ = timer.was.end_
               /\ elapsed(timer, clock) = elapsed(timer.was, clock)
          ELSE /\ timer.running_
               /\ timer.start_ = timer.at
               /\ elapsed(timer, clock) = clock - timer.at

\* Witness: a clock started earlier was started again, and time has passed
\* since.
C29_Witness ==
    /\ timer.last = "start"
    /\ timer.was.running_
    /\ timer.was.start_ < timer.at
    /\ timer.at < clock
\* ===================================================== the SdlGame claims
\* C30: in SdlGame::run any two lag warnings are more than one second, that
\* is more than PerformanceFrequency counter ticks, apart.
C30_GameLagWarningsOneSecondApart ==
    game.warnCount = 2 => Elapsed(game.warnPrev, game.warnLast) > OneSecond
\* C31: pushState given a null state, or a state whose onEnter throws,
\* returns false, and the stack holds the states it held before the call,
\* in the same order.
C31_PushFailureKeepsStack ==
    (/\ delivered.op = "pushState"
     /\ delivered.state = NullState \/ delivered.onEnter = "throws") =>
        ~delivered.returned /\ states_ = delivered.before

\* Witness: a state whose onEnter throws was pushed onto a stack of two.
C31_Witness ==
    /\ delivered.op = "pushState"
    /\ delivered.state # NullState
    /\ delivered.onEnter = "throws"
    /\ delivered.callbacks = << <<delivered.state, "onEnter", 3>> >>
    /\ Len(states_) = 2

\* an onExit is among the callbacks of the latest call
ExitDelivered ==
    \E i \in 1..Len(delivered.callbacks) : delivered.callbacks[i][2] = "onExit"

\* C37: whenever replaceTopState returns false on a stack that is not
\* empty, the state that was on top before the call is still on top, has
\* not received onExit, and the depth is unchanged.
C37_ReplaceIsAllOrNothing ==
    (/\ delivered.op = "replaceTopState"
     /\ ~delivered.returned
     /\ delivered.before # << >>) =>
        /\ Len(states_) = Len(delivered.before)
        /\ Back(states_) = Back(delivered.before)
        /\ ~ExitDelivered
\* C38: after stop() the clock is not running and elapsed() is the stop
\* time minus the start time, whatever the time is now; a further stop()
\* leaves elapsed() as it was; after reset() elapsed() is zero and the
\* clock is not running.
C38_StoppedClockIsFrozen ==
    /\ timer.last = "stop" =>
          /\ ~timer.running_
          /\ elapsed(timer, clock) = timer.at - timer.start_
          /\ timer.prev = "stop" => elapsed(timer, clock) = elapsed(timer.was, clock)
    /\ timer.last = "reset" => ~timer.running_ /\ elapsed(timer, clock) = 0

\* C38, amended: after every stop(), a further one included, the clock is
\* not running and elapsed() is the time of that latest stop() minus the
\* start time, and stays so while time passes; after reset() elapsed() is
\* zero and the clock is not running.
C38_LatestStopFreezes ==
    /\ timer.last = "stop" =>
          /\ ~timer.running_
          /\ timer.start_ = timer.was.start_
          /\ elapsed(timer, clock) = timer.at - timer.was.start_
    /\ timer.last = "reset" => ~timer.running_ /\ elapsed(timer, clock) = 0

\* Witness: a stopped clock was stopped again at a later time, and time has
\* passed since.
C38_Witness ==
    /\ timer.last = "stop"
    /\ timer.prev = "stop"
    /\ timer.was.end_ < timer.at
    /\ timer.at < clock
\* ==================================================== the removal claims
\* the records of map m are those of map n, but for the joystick j
SameButFor(m, n, j) ==
    /\ DOMAIN m \ {j} = DOMAIN n \ {j}
    /\ \A k \in DOMAIN m \ {j} : m[k] = n[k]

\* C39: a gamepad-removed event for the joystick j leaves the button and
\* axis records of every other joystick, the keyboard and mouse records,
\* the bindings and the hold threshold as they were, creates no record, and
\* changes nothing at all when j has no records.
C39_RemovalTouchesNothingElse ==
    [][\A j \in DeviceJoystickIds :
        DeviceEventOf(GamepadRemoved(j)) =>
            /\ UNCHANGED <<keyboardButtons_, mouseButtons_, actions_, holdThreshold_>>
            /\ SameButFor(gamepadButtons_, gamepadButtons_', j)
            /\ SameButFor(axes_, axes_', j)
            /\ j \notin DOMAIN gamepadButtons_'
            /\ j \notin DOMAIN axes_'
            /\ (j \notin DOMAIN gamepadButtons_ /\ j \notin DOMAIN axes_) =>
                  UNCHANGED <<gamepadButtons_, axes_>>]_vars

\* Witness: joystick 1 was removed with a button and an axis record, and
\* the other joystick's records, a key and a mouse record, a binding and a
\* hold threshold other than the default are there.
C39_Witness ==
    /\ purged = {<<1, "button">>, <<1, "axis">>}
    /\ DOMAIN gamepadButtons_ = {2}
    /\ DOMAIN axes_ = {2}
    /\ keyboardButtons_ # EmptyButtons
    /\ mouseButtons_ # EmptyButtons
    /\ actions_ # NoActions
    /\ holdThreshold_ # DefaultHoldThreshold
\* ==================================================== the pumping claims
\* the answers of the button-state queries about the keyboard and the mouse
KeyAndMouseAnswers ==
    <<[key \in Keys |-> getButtonStateKey(key)],
      [button \in MouseButtons |-> getButtonStateMouse(button)]>>

\* the answers of the button-state queries about the buttons of joystick j
GamepadAnswers(j) == [button \in QueryButtons |-> getButtonStateGamepad(button, j)]

\* the answers of the four action queries
ActionAnswers ==
    [n \in ActionNames |->
        <<isActionClicked(n), isActionHeld(n), isActionDown(n), isActionReleased(n)>>]

\* C34: a press, release or axis-motion event changes the answer of no
\* button-state query and of no action query; a gamepad-removed event
\* changes no answer about the keyboard, the mouse or another joystick, and
\* the answers about the buttons of the removed joystick become Up.
C34_EventsKeepQueryAnswers ==
    [][\A e \in PumpEvents :
        ActionEventOf(e) =>
            /\ KeyAndMouseAnswers' = KeyAndMouseAnswers
            /\ \A j \in QueryJoystickIds :
                  IF e.type = "GAMEPAD_REMOVED" /\ e.which = j
                    THEN \A button \in QueryButtons : GamepadAnswers(j)'[button] = "Up"
                    ELSE GamepadAnswers(j)' = GamepadAnswers(j)
            /\ e.type # "GAMEPAD_REMOVED" => ActionAnswers' = ActionAnswers]_vars

\* Witness: after an update a key is Held and a button of joystick 2
\* Clicked, then events released the key, pressed the gamepad button, moved
\* an axis and removed joystick 1, and the action bound to the key still
\* answers Held.
C34_Witness ==
    /\ 97 \in DOMAIN keyboardButtons_
    /\ keyboardButtons_[97].state = "Held" /\ ~keyboardButtons_[97].isDown
    /\ 2 \in DOMAIN gamepadButtons_ /\ 0 \in DOMAIN gamepadButtons_[2]
    /\ gamepadButtons_[2][0].state = "Clicked" /\ gamepadButtons_[2][0].isDown
    /\ 1 \notin DOMAIN gamepadButtons_ /\ 1 \notin DOMAIN axes_
    /\ isActionHeld("jump")
\* ====================================================== the pulse claims
\* C32: an update() that finds a key or gamepad button reported Clicked or
\* Released by the update() before it, with no press event handled for it in
\* between, reports it Up: no button is reported Clicked or Released by two
\* updates in a row without a new press.
C32_PulsesLastOneUpdate ==
    [][Update =>
        \A u \in HistUnits :
            (/\ u \in Tracked
             /\ Rec(u).state \in {"Clicked", "Released"}
             /\ ~hist[u].pressed)
            => RecordOf(keyboardButtons_', mouseButtons_', gamepadButtons_', u).state = "Up"
      ]_vars

\* C32 witness: a key was reported Clicked or Released by an update(), no
\* press came since, and a later update() has reported it Up, while a
\* gamepad button is in its pulse.
C32_Witness ==
    /\ <<"key", 97>> \in Tracked
    /\ hist[<<"key", 97>>].pulsed
    /\ ~hist[<<"key", 97>>].pressed
    /\ Rec(<<"key", 97>>).state = "Up"
    /\ <<"pad", 1, 0>> \in Tracked
    /\ Rec(<<"pad", 1, 0>>).state = "Released"
\* C33: with the hold threshold left alone, the first update() after the
\* release of a key or gamepad button that an update() reported Held since
\* its latest press reports it Released.
C33_HeldEndsReleased ==
    [][Update =>
        \A u \in HistUnits :
            (/\ u \in Tracked
             /\ hist[u].held
             /\ Rec(u).wasDown
             /\ ~Rec(u).isDown)
            => RecordOf(keyboardButtons_', mouseButtons_', gamepadButtons_', u).state
                 = "Released"
      ]_vars

\* C33 witness: a gamepad button pressed at time 0 was reported Held by an
\* update(), then released, and the update() after the release reported it
\* Released.
C33_Witness ==
    /\ <<"pad", 1, 0>> \in Tracked
    /\ hist[<<"pad", 1, 0>>].held
    /\ hist[<<"pad", 1, 0>>].pulsed
    /\ Rec(<<"pad", 1, 0>>).state = "Released"
    /\ Rec(<<"pad", 1, 0>>).pressTime = 0
    /\ clock = HoldTicks
\* =============================================== the conservation claim
\* C36: at every point of a run() call, the fixedUpdate calls so far times
\* fixedTimeStep, plus accumulatedTime, plus the whole steps the lag branch
\* dropped, is the sum of the clamped frame deltas so far; nothing is
\* dropped in a run whose iterations never took the lag branch.
C36_TimeIsConserved ==
    trail.steps * loc.fixedTimeStep + loc.accumulatedTime + trail.dropped = trail.deltas

\* C36 witness: after an iteration of a run that made at least two fixed
\* updates and dropped at least one step, a remainder is left in the
\* accumulator.
C36_Witness ==
    /\ pc = "frame"
    /\ trail.steps >= 2
    /\ trail.dropped >= loc.fixedTimeStep
    /\ loc.fixedTimeStep > 0
    /\ loc.accumulatedTime > 0
    /\ trail.deltas > trail.steps * loc.fixedTimeStep + trail.dropped
\* ================================================ the pulse-in-loop claim
\* a fixedUpdate call is among the calls of the current iteration
FixedUpdateRan == \E i \in 1..Len(calls) : calls[i][1] = "fixedUpdate"

\* C35: once the fixed-update loop of an iteration has ended, a key that
\* this iteration's input update reported Clicked or Released has been seen
\* by at least one fixedUpdate call of the iteration.
C35_PulseSeenByFixedUpdate ==
    (/\ pc \in {"update", "render", "delay", "test"}
     /\ \E k \in DOMAIN keyboardButtons_ :
           keyboardButtons_[k].state \in {"Clicked", "Released"})
    => FixedUpdateRan
====
